---- MODULE Spec2Model ----
(***************************************************************************)
(* A model of simutrador_client.websocket.SimutradorClientSession: the     *)
(* single receive loop (_recv_loop/_dispatch) that demultiplexes inbound   *)
(* envelopes, the pending-request map, the per-session waiters, the        *)
(* per-session Stores and queues, and the facade calls that register       *)
(* futures and await them.                                                 *)
(*                                                                         *)
(* asyncio is single-threaded and cooperative: every action below is the   *)
(* code that runs between two suspension points of one coroutine.          *)
(***************************************************************************)
EXTENDS Integers, Sequences, FiniteSets, TLC

\* ------------------------------------------------------------------ bounds

\* Candles a history_snapshot carries per symbol, at most.
MaxCandles == 1
\* Items kept in one fan-out queue / rows kept in one Store series, at most
\* (the queues and series of the code are unbounded).
MaxQueue == 1
\* Rows a Store series holds, at most.
MaxRows == 2
\* Items kept in one fill queue or account queue, at most.
MaxFills == 2
\* Calls a recording strategy keeps.
MaxCalls == 4
\* The largest trailing window asked of an export.
MaxWindow == 3

\* ------------------------------------------------------------- identifiers

\* JSON null, an absent key or a value of the wrong type.
Missing == "missing"
\* Python's None for a string-valued slot.
None == "none"

\* Request ids: caller-supplied strings or uuid4() strings.
Rids == {"r1", "r2"}
\* Session ids assigned by the server (non-empty strings).
Sids == {"s1", "s2"}
\* Symbols of the candle maps.
Symbols == {"AAPL"}

\* Coroutines that call the facade: two application tasks, the strategy
\* callback running inside the receive loop ("cb"), and the task a nowait
\* submission spawns ("bg").
AppTasks == {"t1", "t2"}
Callers == AppTasks \cup {"cb", "bg"}

\* ------------------------------------------------------------- wire values

\* A JSON value as a candle field carries it: a number, a string holding a
\* number or an ISO date, or something that cannot be coerced.
WireNum(n) == [t |-> "num", v |-> n]
WireStr(n) == [t |-> "str", v |-> n]
WireJunk == [t |-> "junk", v |-> 0]

Candle(d, x) == [date |-> d, open |-> x, high |-> x, low |-> x, close |-> x, volume |-> x]
GoodCandle == Candle(WireStr(1), WireNum(100))
\* A candle whose prices and volume are not numbers.
BadCandle == Candle(WireStr(1), WireJunk)

NoCandles == << >>

\* The data object of an envelope, restricted to the keys the client reads.
MkData(sid, bid, acc, rej, code, msg, candles) ==
    [session_id |-> sid, batch_id |-> bid, accepted_orders |-> acc,
     rejected_orders |-> rej, error_code |-> code, message |-> msg,
     candles |-> candles]

EmptyData == MkData(Missing, Missing, Missing, Missing, Missing, Missing, NoCandles)

\* An inbound envelope {type, request_id, data}; request_id is a string of
\* Rids or Missing (null / not a string).
MkFrame(typ, rid, data) == [type |-> typ, request_id |-> rid, data |-> data]

NoFrame == MkFrame(None, Missing, EmptyData)

\* ------------------------------------------------------- futures and errors

NoErr == [kind |-> None, session_id |-> None, error_code |-> None, message |-> None]

\* websocket.py:23-30: SessionError(session_id, error_code, message); the
\* message attribute is `message or ""`.
SessionError(sid, code, msg) ==
    [kind |-> "SessionError",
     session_id |-> IF sid = Missing THEN None ELSE sid,
     error_code |-> code,
     message |-> IF msg = Missing THEN "" ELSE msg]

\* websocket.py:19-20
SessionProtocolError(text) ==
    [kind |-> "SessionProtocolError", session_id |-> None, error_code |-> None,
     message |-> text]

\* An asyncio.Future: not created, pending, or done with a result or an
\* exception.  A result is the data object handed to set_result; the model
\* keeps the envelope it arrived in beside it.
NoFut == [st |-> "none", val |-> NoFrame, err |-> NoErr]
PendingFut == [st |-> "pending", val |-> NoFrame, err |-> NoErr]
ResultFut(f) == [st |-> "result", val |-> f, err |-> NoErr]
ExcFut(e) == [st |-> "exception", val |-> NoFrame, err |-> e]

FutDone(fut) == fut.st \in {"result", "exception"}

\* What a facade call handed back to its caller.
NoOut == [kind |-> None, sid |-> None, val |-> NoFrame, err |-> NoErr]
ReturnedSid(s) == [kind |-> "returned", sid |-> s, val |-> NoFrame, err |-> NoErr]
ReturnedVal(f) == [kind |-> "returned", sid |-> None, val |-> f, err |-> NoErr]
Raised(e) == [kind |-> "raised", sid |-> None, val |-> NoFrame, err |-> e]

\* ------------------------------------------------------------------ state

VARIABLES
    ws,                  \* self._ws: "none" or "open"
    closed,              \* self._closed
    reader,              \* self._reader_task: where _recv_loop stands
    pending_by_request,  \* self._pending_by_request: rid -> the caller whose future it holds
    req_meta_by_rid,     \* self._req_meta_by_rid: rid -> start parameters
    session_meta,        \* self._session_meta: sid -> start parameters
    pending_by_session,  \* self._pending_by_session: sid -> _Pending
    stores,              \* self._stores: sid -> Store
    store_ready_events,  \* self._store_ready_events: sid -> asyncio.Event
    tick_queues,         \* self._tick_queues
    fill_queues,         \* self._fill_queues
    account_queues,      \* self._account_queues
    task,                \* the coroutines calling the facade, and the future each awaits
    sent,                \* the kinds of envelope handed to ws.send so far, as {type, session_id}
    strategy             \* self._strategy: whether it records its calls, and the calls it recorded

connVars == <<ws, closed, reader>>
reqVars == <<pending_by_request, req_meta_by_rid>>
sessVars == <<session_meta, pending_by_session, stores, store_ready_events>>
queueVars == <<tick_queues, fill_queues, account_queues>>
vars == <<ws, closed, reader, pending_by_request, req_meta_by_rid, session_meta,
          pending_by_session, stores, store_ready_events, tick_queues,
          fill_queues, account_queues, task, sent, strategy>>

\* websocket.py:33-37: the _Pending holder of one session; `created` is never
\* used by the code.
NoPending == [present |-> FALSE, history |-> NoFut, ended |-> NoFut]
NewPending == [present |-> TRUE, history |-> NoFut, ended |-> NoFut]

\* store.py:43-44: a Store with no symbol.
EmptyStore == [present |-> TRUE, by_symbol |-> << >>]
NoStore == [present |-> FALSE, by_symbol |-> << >>]

\* store.py:27-29: _Series.empty()
EmptySeries == [date |-> << >>, open |-> << >>, high |-> << >>, low |-> << >>,
                close |-> << >>, volume |-> << >>]

\* An asyncio.Queue of a session, or no queue yet.
NoQueue == [present |-> FALSE, items |-> << >>]
EmptyQueue == [present |-> TRUE, items |-> << >>]

\* A coroutine that is not inside a facade call.  `held` says that the future
\* it awaits is the one the session's _Pending holder (or the request map)
\* still refers to.
IdleTask == [op |-> None, pc |-> "idle", rid |-> None, sid |-> None,
             fut |-> NoFut, held |-> FALSE, out |-> NoOut]

\* The _recv_loop tasks: where the one self._reader_task refers to is (pc, and
\* the frame it is dispatching), and how many unfinished ones connect()
\* created that self._reader_task no longer refers to (websocket.py:96
\* overwrites it).  ReaderAt moves the former.
ReaderAt(pc) == [pc |-> pc, frame |-> NoFrame, orphans |-> reader.orphans]

\* The Strategy handed to __init__ (websocket.py:53-58): one whose callbacks
\* just return, or one that appends every call it gets to a list, as the
\* recording strategies of tests/test_strategy_callbacks.py do.
PlainStrategy == [records |-> FALSE, events |-> << >>]
RecordingStrategy == [records |-> TRUE, events |-> << >>]

\* websocket.py:53-76: the state __init__ leaves, given the strategy.
InitWith(strat) ==
    /\ ws = "none"
    /\ closed = FALSE
    /\ reader = [pc |-> "none", frame |-> NoFrame, orphans |-> 0]
    /\ pending_by_request = [r \in Rids |-> None]
    /\ req_meta_by_rid = [r \in Rids |-> None]
    /\ session_meta = [s \in Sids |-> None]
    /\ pending_by_session = [s \in Sids |-> NoPending]
    /\ stores = [s \in Sids |-> NoStore]
    /\ store_ready_events = [s \in Sids |-> "absent"]
    /\ tick_queues = [s \in Sids |-> NoQueue]
    /\ fill_queues = [s \in Sids |-> NoQueue]
    /\ account_queues = [s \in Sids |-> NoQueue]
    /\ task = [c \in Callers |-> IdleTask]
    /\ sent = {}
    /\ strategy = strat

Init == InitWith(PlainStrategy)

\* ------------------------------------------------------------ facade calls

NotConnected == SessionProtocolError("WebSocket is not connected")

\* The call of coroutine c ended: it returned a value or raised.
Done(t, out) ==
    [op |-> t.op, pc |-> "done", rid |-> None, sid |-> None, fut |-> NoFut,
     held |-> FALSE, out |-> out]

\* `self._pending_by_request[rid] = fut` for caller c: the future another
\* caller registered under rid is no longer referred to by the map.
Displace(tk, rid, c) ==
    [d \in Callers |->
        IF d # c /\ pending_by_request[rid] = d /\ tk[d].pc = "await_req" /\ tk[d].rid = rid
        THEN [tk[d] EXCEPT !.held = FALSE]
        ELSE tk[d]]

\* A call of a callback of self._strategy: a recording strategy appends what
\* it was called with (the callback, the session, the payload and the Store as
\* it is at that moment) to its list.
Called(cb, sid, data, store) ==
    IF strategy.records
    THEN [strategy EXCEPT !.events =
             Append(@, [cb |-> cb, sid |-> sid, data |-> data, store |-> store])]
    ELSE strategy

AlreadyConnectedNever == FALSE

\* websocket.py:87-88: `if self._ws is not None: return`
AlreadyConnected == ws # "none"

OnSessionStartSkipped(sid, data, store) == strategy

\* websocket.py:450-453: `await self._strategy.on_session_start(sess_id, st, meta)`
OnSessionStart(sid, data, store) == Called("on_session_start", sid, data, store)

OnTickBeforeApply(sid, data, store) == Called("on_tick", sid, data, stores[sid])

\* websocket.py:494-497: `await self._strategy.on_tick(sess_id, tick_obj, st)`
OnTick(sid, data, store) == Called("on_tick", sid, data, store)

OnEventUngated(cb, sid, data) == Called(cb, sid, data, stores[sid])

\* websocket.py:507-512, 521-526, 539-544: `st = self._stores.get(sess_id)`,
\* `if st is not None: await self._strategy.on_X(sess_id, obj, st)`
OnEvent(cb, sid, data) ==
    IF stores[sid].present THEN Called(cb, sid, data, stores[sid]) ELSE strategy

\* websocket.py:85-106 connect(): no-op when already connected; else open the
\* socket, start _recv_loop, whose loop condition (line 386) is false at once
\* when close() was called before, and call the strategy's set_session hook
\* with the session (what the hook raises is dropped).
Connect ==
    IF AlreadyConnected THEN UNCHANGED vars
    ELSE /\ ws' = "open"
         /\ reader' = ReaderAt(IF closed THEN "stopped" ELSE "recv")
         /\ strategy' = Called("set_session", None, EmptyData, NoStore)
         /\ UNCHANGED <<closed, reqVars, sessVars, queueVars, task, sent>>

\* websocket.py:85-95 connect() of task c up to `await websockets.connect(...)`:
\* it returns at once when self._ws is set, else it is suspended while the
\* socket is being opened (self._ws is still None meanwhile).
ConnectBegin(c) ==
    /\ c \in AppTasks
    /\ task[c].pc = "idle"
    /\ task' = [task EXCEPT ![c] =
                   IF AlreadyConnected
                   THEN Done([@ EXCEPT !.op = "connect"], ReturnedVal(NoFrame))
                   ELSE [@ EXCEPT !.op = "connect", !.pc = "opening"]]
    /\ UNCHANGED <<connVars, reqVars, sessVars, queueVars, sent, strategy>>

\* websocket.py:95-106: websockets.connect returned to task c: self._ws is
\* set, a _recv_loop task is created and stored in self._reader_task (the task
\* stored there before, if it is still running, is neither cancelled nor
\* awaited), and the set_session hook is called.  The new loop is over at once
\* when close() was called before (line 386).
ConnectOpened(c) ==
    /\ c \in AppTasks
    /\ task[c].pc = "opening"
    /\ ws' = "open"
    /\ reader' = [pc |-> IF closed THEN "stopped" ELSE "recv",
                  frame |-> NoFrame,
                  orphans |-> reader.orphans
                                + (IF reader.pc \in {"recv", "callback"} THEN 1 ELSE 0)]
    /\ strategy' = Called("set_session", None, EmptyData, NoStore)
    /\ task' = [task EXCEPT ![c] = Done(@, ReturnedVal(NoFrame))]
    /\ UNCHANGED <<closed, reqVars, sessVars, queueVars, sent>>

\* websocket.py:150-159: the data object of a start_simulation request.
StartParams == "params"

\* websocket.py:142-172 start_simulation up to `await fut`, for a caller that
\* is about to run it; kind is "start_simulation" or "run" (run() calls it
\* first, websocket.py:230-231).  sendOk: whether ws.send returned or raised.
StartCall(c, kind, rid, sendOk) ==
    IF ws = "none"
    THEN /\ task' = [task EXCEPT ![c] = Done([@ EXCEPT !.op = kind], Raised(NotConnected))]
         /\ UNCHANGED <<connVars, reqVars, sessVars, queueVars, sent, strategy>>
    ELSE /\ req_meta_by_rid' = [req_meta_by_rid EXCEPT ![rid] = StartParams]
         /\ pending_by_request' = [pending_by_request EXCEPT ![rid] = c]
         /\ IF sendOk
            THEN /\ task' = [Displace(task, rid, c) EXCEPT ![c] =
                        [op |-> kind, pc |-> "await_req", rid |-> rid, sid |-> None,
                         fut |-> PendingFut, held |-> TRUE, out |-> NoOut]]
                 /\ sent' = sent \cup {[type |-> "start_simulation", session_id |-> None]}
            ELSE \* the send raised: nothing is cleaned up, the exception propagates
                 /\ task' = [Displace(task, rid, c) EXCEPT ![c] =
                        [op |-> kind, pc |-> "done", rid |-> rid, sid |-> None,
                         fut |-> PendingFut, held |-> TRUE,
                         out |-> Raised([kind |-> "TransportError", session_id |-> None,
                                         error_code |-> None, message |-> "send failed"])]]
                 /\ sent' = sent
         /\ UNCHANGED <<connVars, sessVars, queueVars, strategy>>

StartSimulation(c, rid, sendOk) ==
    /\ c \in AppTasks
    /\ task[c].pc = "idle"
    /\ StartCall(c, "start_simulation", rid, sendOk)

\* websocket.py:224-233 run()
Run(c, rid, sendOk) ==
    /\ c \in AppTasks
    /\ task[c].pc = "idle"
    /\ StartCall(c, "run", rid, sendOk)

\* websocket.py:280-305 submit_orders up to `ack = await fut`, as new values
\* of (task, pending_by_request, sent) for caller c.
SubmitTask(tk, c, sid, rid, sendOk) ==
    IF ws = "none"
    THEN [tk EXCEPT ![c] = Done([@ EXCEPT !.op = "submit_orders"], Raised(NotConnected))]
    ELSE IF sendOk
    THEN [Displace(tk, rid, c) EXCEPT ![c] =
            [op |-> "submit_orders", pc |-> "await_req", rid |-> rid, sid |-> sid,
             fut |-> PendingFut, held |-> TRUE, out |-> NoOut]]
    ELSE \* lines 298-303: pop the entry, fail the future, re-raise
         [Displace(tk, rid, c) EXCEPT ![c] =
            Done([@ EXCEPT !.op = "submit_orders", !.rid = rid, !.sid = sid],
                 Raised([kind |-> "TransportError", session_id |-> None,
                         error_code |-> None, message |-> "send failed"]))]

SubmitPending(c, rid, sendOk) ==
    IF ws = "none" THEN pending_by_request
    ELSE IF sendOk THEN [pending_by_request EXCEPT ![rid] = c]
    ELSE [pending_by_request EXCEPT ![rid] = None]

SubmitSent(sid, rid, sendOk) ==
    IF ws # "none" /\ sendOk
    THEN sent \cup {[type |-> "order_batch", session_id |-> sid]}
    ELSE sent

\* websocket.py:267-313 submit_orders (and place_bracket_order, 315-352, which
\* only builds the one order and calls it) called by an application task, or
\* started as the task a nowait submission created.
SubmitOrders(c, sid, rid, sendOk) ==
    /\ \/ c \in AppTasks /\ task[c].pc = "idle"
       \/ c = "bg" /\ task[c].pc = "spawned" /\ task[c].sid = sid
    /\ task' = SubmitTask(task, c, sid, rid, sendOk)
    /\ pending_by_request' = SubmitPending(c, rid, sendOk)
    /\ sent' = SubmitSent(sid, rid, sendOk)
    /\ UNCHANGED <<connVars, req_meta_by_rid, sessVars, queueVars, strategy>>

\* `pending = self._pending_by_session.setdefault(session_id, _Pending())`
SetDefaultPending(pbs, sid) ==
    IF pbs[sid].present THEN pbs ELSE [pbs EXCEPT ![sid] = NewPending]

\* `if pending.X is None or pending.X.done(): pending.X = create_future()`
Arm(fut) == IF fut.st = "none" \/ FutDone(fut) THEN PendingFut ELSE fut

\* websocket.py:182-195 wait_for_history_snapshot up to the await
WaitForHistorySnapshot(c, sid) ==
    /\ c \in AppTasks
    /\ task[c].pc = "idle"
    /\ IF ws = "none"
       THEN /\ task' = [task EXCEPT ![c] =
                   Done([@ EXCEPT !.op = "wait_for_history_snapshot"], Raised(NotConnected))]
            /\ UNCHANGED pending_by_session
       ELSE /\ pending_by_session' =
                   [SetDefaultPending(pending_by_session, sid) EXCEPT
                       ![sid].history = Arm(@)]
            /\ task' = [task EXCEPT ![c] =
                   [op |-> "wait_for_history_snapshot", pc |-> "await_history",
                    rid |-> None, sid |-> sid, fut |-> PendingFut, held |-> TRUE,
                    out |-> NoOut]]
    /\ UNCHANGED <<connVars, reqVars, session_meta, stores, store_ready_events,
                   queueVars, sent, strategy>>

\* websocket.py:212-222 wait_for_simulation_end up to the await, as the new
\* (task, pending_by_session) of a caller c whose record is t.
EndWaitTask(t, sid) ==
    IF ws = "none"
    THEN Done(t, Raised(NotConnected))
    ELSE [t EXCEPT !.pc = "await_ended", !.sid = sid, !.fut = PendingFut,
                   !.held = TRUE, !.out = NoOut]

EndWaitPending(pbs, sid) ==
    IF ws = "none"
    THEN pbs
    ELSE [SetDefaultPending(pbs, sid) EXCEPT ![sid].ended = Arm(@)]

WaitForSimulationEnd(c, sid) ==
    /\ c \in AppTasks
    /\ task[c].pc = "idle"
    /\ task' = [task EXCEPT ![c] =
            EndWaitTask([IdleTask EXCEPT !.op = "wait_for_simulation_end"], sid)]
    /\ pending_by_session' = EndWaitPending(pending_by_session, sid)
    /\ UNCHANGED <<connVars, reqVars, session_meta, stores, store_ready_events,
                   queueVars, sent, strategy>>

\* websocket.py:258-261: the tail of wait_for_store_ready, once the event is set
StoreReadyOutcome(sid) ==
    IF stores[sid].present
    THEN ReturnedSid(sid)
    ELSE Raised(SessionProtocolError("Store not available"))

\* websocket.py:247-261 wait_for_store_ready: no connection check; an event
\* that is already set does not suspend the caller.
WaitForStoreReady(c, sid) ==
    /\ c \in AppTasks
    /\ task[c].pc = "idle"
    /\ store_ready_events' =
           [store_ready_events EXCEPT ![sid] = IF @ = "absent" THEN "clear" ELSE @]
    /\ task' = [task EXCEPT ![c] =
           IF store_ready_events[sid] = "set"
           THEN Done([IdleTask EXCEPT !.op = "wait_for_store_ready", !.sid = sid],
                     StoreReadyOutcome(sid))
           ELSE [IdleTask EXCEPT !.op = "wait_for_store_ready", !.pc = "await_event",
                                 !.sid = sid]]
    /\ UNCHANGED <<connVars, reqVars, session_meta, pending_by_session, stores,
                   queueVars, sent, strategy>>

\* ------------------------------------------------------------------- Store

\* store.py:165-170: the date must be an ISO-8601 string (a JSON number is
\* neither a str nor a datetime).
CoerceDateOk(w) == w.t = "str"
\* store.py:172-181 _f: float(v) for a number or a numeric string.
CoerceNumOk(w) == w.t \in {"num", "str"}

\* store.py:163-188 _coerce_candle: raises unless every field coerces.
CoerceOk(c) ==
    /\ CoerceDateOk(c.date)
    /\ CoerceNumOk(c.open) /\ CoerceNumOk(c.high) /\ CoerceNumOk(c.low)
    /\ CoerceNumOk(c.close) /\ CoerceNumOk(c.volume)

AppendCandleNoVolume(ser, c) ==
    [date |-> Append(ser.date, c.date.v), open |-> Append(ser.open, c.open.v),
     high |-> Append(ser.high, c.high.v), low |-> Append(ser.low, c.low.v),
     close |-> Append(ser.close, c.close.v), volume |-> ser.volume]

\* store.py:64-70 and 80-86: the six appends that follow a coercion.
AppendCandle(ser, c) ==
    [date |-> Append(ser.date, c.date.v), open |-> Append(ser.open, c.open.v),
     high |-> Append(ser.high, c.high.v), low |-> Append(ser.low, c.low.v),
     close |-> Append(ser.close, c.close.v), volume |-> Append(ser.volume, c.volume.v)]

\* store.py:63-70: the candles of one symbol, in order; stops at the first
\* candle that does not coerce (the exception leaves the loop).
RECURSIVE ApplyRows(_, _)
ApplyRows(ser, rows) ==
    IF rows = << >> THEN [ok |-> TRUE, ser |-> ser]
    ELSE IF ~CoerceOk(Head(rows)) THEN [ok |-> FALSE, ser |-> ser]
    ELSE ApplyRows(AppendCandle(ser, Head(rows)), Tail(rows))

\* `self._by_symbol.setdefault(sym_s, _Series.empty())`
SeriesOf(by_symbol, sym) ==
    IF sym \in DOMAIN by_symbol THEN by_symbol[sym] ELSE EmptySeries

PutSeries(by_symbol, sym, ser) ==
    [y \in DOMAIN by_symbol \cup {sym} |-> IF y = sym THEN ser ELSE by_symbol[y]]

\* store.py:55-70 apply_history_snapshot / store.py:72-86 apply_tick: the
\* symbols of the candle map in order.  A tick's map holds one candle per
\* symbol, a snapshot's a list of them.  [ok, store]: ok is FALSE when a
\* coercion raised, and store is then what the Store holds at that moment.
RECURSIVE ApplyCandles(_, _)
ApplyCandles(store, candles) ==
    IF candles = << >> THEN [ok |-> TRUE, store |-> store]
    ELSE LET e == Head(candles)
             r == ApplyRows(SeriesOf(store.by_symbol, e.sym), e.rows)
             st == [store EXCEPT !.by_symbol = PutSeries(@, e.sym, r.ser)]
         IN IF r.ok THEN ApplyCandles(st, Tail(candles))
            ELSE [ok |-> FALSE, store |-> st]

\* store.py:49-53 Store.from_history
FromHistory(candles) == ApplyCandles(EmptyStore, candles)

\* store.py:55-70 Store.apply_history_snapshot
ApplyHistorySnapshot(store, candles) == ApplyCandles(store, candles)

\* store.py:72-86 Store.apply_tick
ApplyTick(store, candles) == ApplyCandles(store, candles)

\* store.py:15 _NUMERIC_FIELDS
NumericFields == {"open", "high", "low", "close", "volume"}

\* Python's `seq[slice(-n, None)]` (store.py:108, 129): a negative start
\* counts from the end and is clamped at the first element; a start that is
\* not negative (-0 is 0) counts from the front.
SliceTail(seq, n) ==
    LET start == IF -n < 0
                 THEN (IF Len(seq) - n > 0 THEN Len(seq) - n ELSE 0)
                 ELSE (IF -n < Len(seq) THEN -n ELSE Len(seq))
    IN SubSeq(seq, start + 1, Len(seq))

\* store.py:91-114 Store.as_numpy for one field; window is << >> (None) or
\* <<n>>.  [raised, values]: the exception raised, if any, and the array.
AsNumpy(store, symbol, field, window) ==
    IF symbol \notin DOMAIN store.by_symbol
    THEN [raised |-> "KeyError", values |-> << >>]
    ELSE IF field \notin NumericFields
    THEN [raised |-> "ValueError", values |-> << >>]
    ELSE LET col == store.by_symbol[symbol][field] IN
         [raised |-> None,
          values |-> IF window = << >> THEN col ELSE SliceTail(col, window[1])]

\* store.py:116-135 Store.as_pandas for one field: the column and the index
\* are cut by the same slice; a field the series does not have is an
\* AttributeError of getattr.
AsPandas(store, symbol, field, window) ==
    IF symbol \notin DOMAIN store.by_symbol
    THEN [raised |-> "KeyError", values |-> << >>, index |-> << >>]
    ELSE IF field \notin NumericFields \cup {"date"}
    THEN [raised |-> "AttributeError", values |-> << >>, index |-> << >>]
    ELSE LET ser == store.by_symbol[symbol] IN
         [raised |-> None,
          values |-> IF window = << >> THEN ser[field] ELSE SliceTail(ser[field], window[1]),
          index |-> IF window = << >> THEN ser.date ELSE SliceTail(ser.date, window[1])]

\* Rows of the longest series of a Store.
RECURSIVE MaxLenOf(_, _)
MaxLenOf(by_symbol, syms) ==
    IF syms = {} THEN 0
    ELSE LET y == CHOOSE z \in syms : TRUE
             rest == MaxLenOf(by_symbol, syms \ {y})
         IN IF Len(by_symbol[y].date) > rest THEN Len(by_symbol[y].date) ELSE rest

StoreRows(store) == MaxLenOf(store.by_symbol, DOMAIN store.by_symbol)

\* store.py:43-44: `Store()` for session sid, as a direct user of the class
\* makes one.
StoreNew(sid) ==
    /\ ~stores[sid].present
    /\ stores' = [stores EXCEPT ![sid] = EmptyStore]
    /\ UNCHANGED <<connVars, reqVars, session_meta, pending_by_session,
                   store_ready_events, queueVars, task, sent, strategy>>

\* store.py:55-70: apply_history_snapshot called on the Store of sid; when a
\* candle does not coerce the call raises and the Store keeps what the
\* candles before it appended.
StoreApplyHistorySnapshot(sid, candles) ==
    /\ stores[sid].present
    /\ stores' = [stores EXCEPT ![sid] = ApplyHistorySnapshot(@, candles).store]
    /\ UNCHANGED <<connVars, reqVars, session_meta, pending_by_session,
                   store_ready_events, queueVars, task, sent, strategy>>

\* store.py:72-86: apply_tick called on the Store of sid.
StoreApplyTick(sid, candles) ==
    /\ stores[sid].present
    /\ stores' = [stores EXCEPT ![sid] = ApplyTick(@, candles).store]
    /\ UNCHANGED <<connVars, reqVars, session_meta, pending_by_session,
                   store_ready_events, queueVars, task, sent, strategy>>

\* -------------------------------------------------------------- resumption

\* websocket.py:200-202 subscribe_ticks, and its caller taking one item off
\* the queue it returned.
TakeTick(sid) ==
    /\ tick_queues[sid].present
    /\ tick_queues[sid].items # << >>
    /\ tick_queues' = [tick_queues EXCEPT ![sid].items = Tail(@)]
    /\ UNCHANGED <<connVars, reqVars, sessVars, fill_queues, account_queues, task, sent, strategy>>

GetQueueAlwaysNew(queues, sid) == [queues EXCEPT ![sid] = EmptyQueue]

\* websocket.py:372-380 _get_queue: the queue of the session, made on first
\* access.
GetQueue(queues, sid) ==
    IF queues[sid].present THEN queues ELSE [queues EXCEPT ![sid] = EmptyQueue]

\* websocket.py:200-202 subscribe_ticks
SubscribeTicks(sid) ==
    /\ tick_queues' = GetQueue(tick_queues, sid)
    /\ UNCHANGED <<connVars, reqVars, sessVars, fill_queues, account_queues, task, sent,
                   strategy>>

\* websocket.py:204-206 subscribe_fills
SubscribeFills(sid) ==
    /\ fill_queues' = GetQueue(fill_queues, sid)
    /\ UNCHANGED <<connVars, reqVars, sessVars, tick_queues, account_queues, task, sent,
                   strategy>>

\* websocket.py:208-210 subscribe_account
SubscribeAccount(sid) ==
    /\ account_queues' = GetQueue(account_queues, sid)
    /\ UNCHANGED <<connVars, reqVars, sessVars, tick_queues, fill_queues, task, sent,
                   strategy>>

\* The consumer of the queue subscribe_fills returned takes one item off it.
TakeFill(sid) ==
    /\ fill_queues[sid].present
    /\ fill_queues[sid].items # << >>
    /\ fill_queues' = [fill_queues EXCEPT ![sid].items = Tail(@)]
    /\ UNCHANGED <<connVars, reqVars, sessVars, tick_queues, account_queues, task, sent,
                   strategy>>

\* The consumer of the queue subscribe_account returned takes one item off it.
TakeAccount(sid) ==
    /\ account_queues[sid].present
    /\ account_queues[sid].items # << >>
    /\ account_queues' = [account_queues EXCEPT ![sid].items = Tail(@)]
    /\ UNCHANGED <<connVars, reqVars, sessVars, tick_queues, fill_queues, task, sent,
                   strategy>>

\* websocket.py:372-380 _get_queue followed by put_nowait(item)
QueuePut(queues, sid, item) ==
    [queues EXCEPT ![sid] = [present |-> TRUE, items |-> Append(@.items, item)]]

\* websocket.py:172-180: start_simulation after `created = await fut`
StartOutcome(fut) ==
    IF fut.st = "exception" THEN Raised(fut.err)
    ELSE IF fut.val.data.session_id = Missing
    THEN Raised(SessionProtocolError(
             "Invalid session_created payload: missing or non-string session_id"))
    ELSE ReturnedSid(fut.val.data.session_id)

SubmitOutcomeUnchecked(fut) ==
    IF fut.st = "exception" THEN Raised(fut.err) ELSE ReturnedVal(fut.val)

\* websocket.py:305-313: submit_orders after `ack = await fut`
SubmitOutcome(fut) ==
    IF fut.st = "exception" THEN Raised(fut.err)
    ELSE IF fut.val.data.batch_id = Missing
    THEN Raised(SessionProtocolError(
             "Invalid batch_ack payload: missing or non-string batch_id"))
    ELSE IF fut.val.data.accepted_orders = Missing
    THEN Raised(SessionProtocolError(
             "Invalid batch_ack payload: accepted_orders must be a list"))
    ELSE IF fut.val.data.rejected_orders = Missing
    THEN Raised(SessionProtocolError(
             "Invalid batch_ack payload: rejected_orders must be an object"))
    ELSE ReturnedVal(fut.val)

\* websocket.py:194-195 and 221-222: what `await pending.X` hands back
WaitOutcome(fut) ==
    IF fut.st = "exception" THEN Raised(fut.err) ELSE ReturnedVal(fut.val)

\* The event loop resumes coroutine c, whose awaited future is done (or whose
\* event is set), and c runs to its end or to its next await.
Resume(c) ==
    LET t == task[c] IN
    /\ \/ t.pc \in {"await_req", "await_history", "await_ended"} /\ FutDone(t.fut)
       \/ t.pc = "await_event" /\ store_ready_events[t.sid] = "set"
    /\ CASE t.pc = "await_req" /\ t.op = "start_simulation" ->
              LET out == StartOutcome(t.fut) IN
              /\ task' = [task EXCEPT ![c] = Done(t, out)]
              /\ pending_by_session' =
                     IF out.kind = "returned"
                     THEN SetDefaultPending(pending_by_session, out.sid)
                     ELSE pending_by_session
              /\ UNCHANGED <<reader, tick_queues>>
         [] t.pc = "await_req" /\ t.op = "run" ->
              \* websocket.py:231-232: start_simulation returned, run() goes on
              \* to wait_for_simulation_end without suspending in between
              LET out == StartOutcome(t.fut) IN
              /\ task' = [task EXCEPT ![c] =
                     IF out.kind = "returned" THEN EndWaitTask(t, out.sid)
                     ELSE Done(t, out)]
              /\ pending_by_session' =
                     IF out.kind = "returned"
                     THEN EndWaitPending(
                              SetDefaultPending(pending_by_session, out.sid), out.sid)
                     ELSE pending_by_session
              /\ UNCHANGED <<reader, tick_queues>>
         [] t.pc = "await_req" /\ t.op = "submit_orders" ->
              /\ task' = [task EXCEPT ![c] = Done(t, SubmitOutcome(t.fut))]
              /\ IF c = "cb"
                 THEN \* websocket.py:494-498: on_tick is over (what it raised is
                      \* dropped), the tick is queued and the loop reads on
                      /\ reader' = ReaderAt("recv")
                      /\ tick_queues' = QueuePut(tick_queues, t.sid, reader.frame.data)
                 ELSE UNCHANGED <<reader, tick_queues>>
              /\ UNCHANGED pending_by_session
         [] t.pc = "await_history" ->
              /\ task' = [task EXCEPT ![c] = Done(t, WaitOutcome(t.fut))]
              /\ UNCHANGED <<reader, tick_queues, pending_by_session>>
         [] t.pc = "await_ended" ->
              \* websocket.py:232-233: run() returns the session id
              /\ task' = [task EXCEPT ![c] =
                     Done(t, IF t.op = "run" /\ t.fut.st = "result"
                             THEN ReturnedSid(t.sid) ELSE WaitOutcome(t.fut))]
              /\ UNCHANGED <<reader, tick_queues, pending_by_session>>
         [] t.pc = "await_event" ->
              /\ task' = [task EXCEPT ![c] = Done(t, StoreReadyOutcome(t.sid))]
              /\ UNCHANGED <<reader, tick_queues, pending_by_session>>
    /\ UNCHANGED <<ws, closed, reqVars, session_meta, stores, store_ready_events,
                   fill_queues, account_queues, sent, strategy>>

\* ---------------------------------------------------------------- dispatch

\* websocket.py:413-414: rid is the request_id when it is a string, else None;
\* `self._pending_by_request.pop(rid, None) if rid else None`
RequestOwner(rid) == IF rid = Missing THEN None ELSE pending_by_request[rid]

PopRequestKeepsEntry(rid) == pending_by_request

PopRequest(rid) ==
    IF rid = Missing THEN pending_by_request
    ELSE [pending_by_request EXCEPT ![rid] = None]

\* `fut is not None and not fut.done()`
Live(tk, owner) == owner # None /\ tk[owner].fut.st = "pending"

\* set_result / set_exception on the future the request map held
SetRequestFut(tk, owner, fut) ==
    IF Live(tk, owner) THEN [tk EXCEPT ![owner].fut = fut] ELSE tk

\* set_result / set_exception on a future of a session's _Pending holder: every
\* coroutine awaiting that future sees it done.
SetWaiters(tk, pc, sid, fut) ==
    [c \in Callers |->
        IF tk[c].pc = pc /\ tk[c].sid = sid /\ tk[c].held /\ tk[c].fut.st = "pending"
        THEN [tk[c] EXCEPT !.fut = fut]
        ELSE tk[c]]

\* websocket.py:548-556 _fail_all_pending, on the tasks: request futures and
\* history futures get the exception; both maps are cleared, so an `ended`
\* future is dropped as it is.
FailAllTasks(tk, exc) ==
    [c \in Callers |->
        IF (\E r \in Rids : pending_by_request[r] = c) /\ tk[c].fut.st = "pending"
        THEN [tk[c] EXCEPT !.fut = ExcFut(exc)]
        ELSE IF tk[c].pc = "await_history" /\ tk[c].held /\ tk[c].fut.st = "pending"
        THEN [tk[c] EXCEPT !.fut = ExcFut(exc)]
        ELSE IF tk[c].pc = "await_ended" /\ tk[c].held
        THEN [tk[c] EXCEPT !.held = FALSE]
        ELSE tk[c]]

\* What `await asyncio.wait_for(x, timeout=timeout)` raises when the time is up.
TimedOut == [kind |-> "TimeoutError", session_id |-> None, error_code |-> None,
             message |-> None]

\* What awaiting a cancelled future raises.
Cancelled == [kind |-> "CancelledError", session_id |-> None, error_code |-> None,
              message |-> None]

\* websocket.py:195, 222 and 257: the timeout of a wait_for_* call of c runs
\* out before the milestone arrives.  asyncio.wait_for cancels what it was
\* given: for wait_for_history_snapshot and wait_for_simulation_end that is the
\* future of the session's _Pending holder itself, which every other caller
\* waiting for the same milestone awaits too; for wait_for_store_ready it is
\* the caller's own ev.wait().
Timeout(c) ==
    LET t == task[c]
        field == IF t.pc = "await_history" THEN "history" ELSE "ended"
    IN
    /\ c \in AppTasks
    /\ \/ t.pc \in {"await_history", "await_ended"} /\ t.fut.st = "pending"
       \/ t.pc = "await_event" /\ store_ready_events[t.sid] # "set"
    /\ IF t.pc = "await_event" \/ ~t.held
       THEN /\ task' = [task EXCEPT ![c] = Done(t, Raised(TimedOut))]
            /\ UNCHANGED pending_by_session
       ELSE /\ task' = [SetWaiters(task, t.pc, t.sid, ExcFut(Cancelled)) EXCEPT
                           ![c] = Done(t, Raised(TimedOut))]
            /\ pending_by_session' =
                   [pending_by_session EXCEPT ![t.sid][field] = ExcFut(Cancelled)]
    /\ UNCHANGED <<connVars, reqVars, session_meta, stores, store_ready_events,
                   queueVars, sent, strategy>>

LoopFailed == SessionProtocolError("WebSocket receive loop failed")

\* websocket.py:400-402: an exception left _dispatch (or recv): fail what is
\* pending and leave the loop.  stores1 is the Store map at that moment.
RecvLoopFails(stores1) ==
    /\ task' = FailAllTasks(task, LoopFailed)
    /\ pending_by_request' = [r \in Rids |-> None]
    /\ pending_by_session' = [s \in Sids |-> NoPending]
    /\ reader' = ReaderAt("stopped")
    /\ stores' = stores1
    /\ UNCHANGED <<ws, closed, req_meta_by_rid, session_meta, store_ready_events,
                   queueVars, sent, strategy>>

\* websocket.py:416-432
DispatchSessionCreated(f) ==
    LET rid == f.request_id
        owner == RequestOwner(rid)
        sid == f.data.session_id
        ok == Live(task, owner) /\ sid # Missing
    IN
    /\ pending_by_request' = PopRequest(rid)
    /\ task' = SetRequestFut(task, owner,
                   IF sid = Missing
                   THEN ExcFut(SessionProtocolError(
                            "Invalid session_created payload: missing session_id"))
                   ELSE ResultFut(f))
    /\ req_meta_by_rid' = IF ok THEN [req_meta_by_rid EXCEPT ![rid] = None]
                          ELSE req_meta_by_rid
    /\ session_meta' = IF ok /\ req_meta_by_rid[rid] # None
                       THEN [session_meta EXCEPT ![sid] = req_meta_by_rid[rid]]
                       ELSE session_meta
    /\ UNCHANGED <<connVars, pending_by_session, stores, store_ready_events,
                   queueVars, sent, strategy>>

DispatchHistorySnapshotNoStore(f) ==
    LET sid == f.data.session_id
        built == FromHistory(f.data.candles)
    IN
    IF sid = Missing THEN UNCHANGED vars
    ELSE IF ~built.ok THEN RecvLoopFails(stores)
    ELSE
    /\ store_ready_events' = [store_ready_events EXCEPT ![sid] = "set"]
    /\ IF pending_by_session[sid].present /\ pending_by_session[sid].history.st = "pending"
       THEN /\ pending_by_session' =
                   [pending_by_session EXCEPT ![sid].history = ResultFut(f)]
            /\ task' = SetWaiters(task, "await_history", sid, ResultFut(f))
       ELSE UNCHANGED <<pending_by_session, task>>
    /\ UNCHANGED <<connVars, reqVars, session_meta, queueVars, sent, strategy, stores>>

\* websocket.py:434-454; on_session_start is awaited last and what it raises
\* is dropped.
DispatchHistorySnapshot(f) ==
    LET sid == f.data.session_id
        built == FromHistory(f.data.candles)
    IN
    IF sid = Missing THEN UNCHANGED vars
    ELSE IF ~built.ok THEN RecvLoopFails(stores)
    ELSE
    /\ stores' = [stores EXCEPT ![sid] = built.store]
    /\ store_ready_events' = [store_ready_events EXCEPT ![sid] = "set"]
    /\ IF pending_by_session[sid].present /\ pending_by_session[sid].history.st = "pending"
       THEN /\ pending_by_session' =
                   [pending_by_session EXCEPT ![sid].history = ResultFut(f)]
            /\ task' = SetWaiters(task, "await_history", sid, ResultFut(f))
       ELSE UNCHANGED <<pending_by_session, task>>
    /\ strategy' = OnSessionStart(sid, f.data, built.store)
    /\ UNCHANGED <<connVars, reqVars, session_meta, queueVars, sent>>

ErrorOfNoDefault(f) ==
    SessionError(f.data.session_id, f.data.error_code, f.data.message)

\* websocket.py:459-463
ErrorOf(f) ==
    SessionError(f.data.session_id,
                 IF f.data.error_code = Missing THEN "UNKNOWN" ELSE f.data.error_code,
                 f.data.message)

DispatchSessionErrorAllSessions(f) ==
    LET rid == f.request_id
        err == ErrorOf(f)
        hist(s) == pending_by_session[s].present
                   /\ pending_by_session[s].history.st = "pending"
    IN
    /\ pending_by_session' =
           [s \in Sids |-> IF hist(s)
                           THEN [pending_by_session[s] EXCEPT !.history = ExcFut(err)]
                           ELSE pending_by_session[s]]
    /\ pending_by_request' = PopRequest(rid)
    /\ task' = SetRequestFut(
                   [c \in Callers |->
                       IF task[c].pc = "await_history" /\ task[c].held
                          /\ task[c].fut.st = "pending"
                       THEN [task[c] EXCEPT !.fut = ExcFut(err)]
                       ELSE task[c]],
                   RequestOwner(rid), ExcFut(err))
    /\ UNCHANGED <<connVars, req_meta_by_rid, session_meta, stores,
                   store_ready_events, queueVars, sent, strategy>>

\* websocket.py:456-476
DispatchSessionError(f) ==
    LET sid == f.data.session_id
        rid == f.request_id
        err == ErrorOf(f)
        hist == sid # Missing /\ pending_by_session[sid].present
                /\ pending_by_session[sid].history.st = "pending"
        tk1 == IF hist THEN SetWaiters(task, "await_history", sid, ExcFut(err)) ELSE task
    IN
    /\ pending_by_session' =
           IF hist THEN [pending_by_session EXCEPT ![sid].history = ExcFut(err)]
           ELSE pending_by_session
    /\ pending_by_request' = PopRequest(rid)
    /\ task' = SetRequestFut(tk1, RequestOwner(rid), ExcFut(err))
    /\ UNCHANGED <<connVars, req_meta_by_rid, session_meta, stores,
                   store_ready_events, queueVars, sent, strategy>>

DispatchBatchAckNoResolve(f) ==
    /\ pending_by_request' = PopRequest(f.request_id)
    /\ UNCHANGED <<connVars, req_meta_by_rid, sessVars, queueVars, sent, strategy, task>>

\* websocket.py:477-482
DispatchBatchAck(f) ==
    /\ pending_by_request' = PopRequest(f.request_id)
    /\ task' = SetRequestFut(task, RequestOwner(f.request_id), ResultFut(f))
    /\ UNCHANGED <<connVars, req_meta_by_rid, sessVars, queueVars, sent, strategy>>

\* The nowait form of submit_orders / place_bracket_order (spec section 4.4:
\* "schedules the request as an independent background unit of work and
\* returns a handle immediately"): a task that will run submit_orders.
SubmitOrdersNowait(tk, sid) ==
    [tk EXCEPT !["bg"] = [IdleTask EXCEPT !.op = "submit_orders", !.pc = "spawned",
                                          !.sid = sid]]

CallSiteReraises(mode) == mode

\* websocket.py:494-497 (and 450-453, 509-512, 523-526, 541-544):
\* `try: await self._strategy.on_X(...) except Exception: pass`: a callback
\* that raises leaves its call site as one that returned does.
CallSite(mode) == IF mode = "raise" THEN "return" ELSE mode

\* websocket.py:484-499.  mode is what the strategy's on_tick does: "return",
\* "raise", "await_order" (it awaits place_bracket_order, under a uuid4
\* request id rid) or "nowait_order" (it calls the nowait form).
DispatchTick(f, mode, rid) ==
    LET sid == f.data.session_id
        st == IF sid = Missing THEN NoStore ELSE stores[sid]
        applied == ApplyTick(st, f.data.candles)
        tk == SubmitTask(task, "cb", sid, rid, TRUE)
        cb == CallSite(mode)
    IN
    IF sid = Missing THEN UNCHANGED vars
    ELSE IF ~st.present
    THEN /\ tick_queues' = QueuePut(tick_queues, sid, f.data)
         /\ UNCHANGED <<connVars, reqVars, sessVars, fill_queues, account_queues,
                        task, sent, strategy>>
    ELSE IF ~applied.ok
    THEN RecvLoopFails([stores EXCEPT ![sid] = applied.store])
    ELSE IF cb = "raise"
    THEN \* an exception that left the call site leaves _dispatch as well
         RecvLoopFails([stores EXCEPT ![sid] = applied.store])
    ELSE IF cb = "await_order" /\ tk["cb"].pc = "await_req"
    THEN \* on_tick is suspended in submit_orders, and _dispatch in on_tick
         /\ stores' = [stores EXCEPT ![sid] = applied.store]
         /\ task' = tk
         /\ pending_by_request' = SubmitPending("cb", rid, TRUE)
         /\ sent' = SubmitSent(sid, rid, TRUE)
         /\ reader' = [pc |-> "callback", frame |-> f, orphans |-> reader.orphans]
         /\ strategy' = OnTick(sid, f.data, applied.store)
         /\ UNCHANGED <<ws, closed, req_meta_by_rid, session_meta, pending_by_session,
                        store_ready_events, queueVars>>
    ELSE /\ stores' = [stores EXCEPT ![sid] = applied.store]
         /\ task' = IF cb = "nowait_order" THEN SubmitOrdersNowait(task, sid) ELSE task
         /\ tick_queues' = QueuePut(tick_queues, sid, f.data)
         /\ strategy' = OnTick(sid, f.data, applied.store)
         /\ UNCHANGED <<connVars, reqVars, session_meta, pending_by_session,
                        store_ready_events, fill_queues, account_queues, sent>>

\* websocket.py:501-513; on_fill is awaited after the put, what it raises is
\* dropped.
DispatchExecutionReport(f) ==
    LET sid == f.data.session_id IN
    IF sid = Missing THEN UNCHANGED vars
    ELSE /\ fill_queues' = QueuePut(fill_queues, sid, f.data)
         /\ strategy' = OnEvent("on_fill", sid, f.data)
         /\ UNCHANGED <<connVars, reqVars, sessVars, tick_queues, account_queues,
                        task, sent>>

\* websocket.py:515-527
DispatchAccountSnapshot(f) ==
    LET sid == f.data.session_id IN
    IF sid = Missing THEN UNCHANGED vars
    ELSE /\ account_queues' = QueuePut(account_queues, sid, f.data)
         /\ strategy' = OnEvent("on_account_snapshot", sid, f.data)
         /\ UNCHANGED <<connVars, reqVars, sessVars, tick_queues, fill_queues,
                        task, sent>>

\* websocket.py:529-545: a done (or absent) `ended` future is replaced by a new
\* one, which gets the result; a pending one gets it, with its waiters.
DispatchSimulationEnd(f) ==
    LET sid == f.data.session_id IN
    IF sid = Missing THEN UNCHANGED vars
    ELSE /\ pending_by_session' =
                [SetDefaultPending(pending_by_session, sid) EXCEPT
                    ![sid].ended = ResultFut(f)]
         /\ task' = IF pending_by_session[sid].present
                       /\ pending_by_session[sid].ended.st = "pending"
                    THEN SetWaiters(task, "await_ended", sid, ResultFut(f))
                    ELSE task
         /\ strategy' = OnEvent("on_session_end", sid, f.data)
         /\ UNCHANGED <<connVars, reqVars, session_meta, stores, store_ready_events,
                        queueVars, sent>>

TypeOfErrorIsSessionError(f) == IF f.type = "error" THEN "session_error" ELSE f.type

\* websocket.py:405: `typ = obj.get("type")`, compared with the eight literals
\* of lines 416-529.
TypeOf(f) == f.type

\* websocket.py:404-545 _dispatch
Dispatch(f, mode, rid) ==
    CASE TypeOf(f) = "session_created" -> DispatchSessionCreated(f)
      [] TypeOf(f) = "history_snapshot" -> DispatchHistorySnapshot(f)
      [] TypeOf(f) = "session_error" -> DispatchSessionError(f)
      [] TypeOf(f) = "batch_ack" -> DispatchBatchAck(f)
      [] TypeOf(f) = "tick" -> DispatchTick(f, mode, rid)
      [] TypeOf(f) = "execution_report" -> DispatchExecutionReport(f)
      [] TypeOf(f) = "account_snapshot" -> DispatchAccountSnapshot(f)
      [] TypeOf(f) = "simulation_end" -> DispatchSimulationEnd(f)
      [] OTHER -> UNCHANGED vars

\* The model keeps a queue, a series or the list of a recording strategy no
\* longer than its bound: a frame that would grow one beyond it is not
\* delivered.
Deliverable(f) ==
    LET sid == f.data.session_id IN
    sid # Missing =>
        /\ f.type = "tick" =>
              /\ Len(tick_queues[sid].items) < MaxQueue
              /\ (stores[sid].present /\ f.data.candles # NoCandles)
                    => StoreRows(stores[sid]) < MaxRows
        /\ f.type = "execution_report" => Len(fill_queues[sid].items) < MaxFills
        /\ f.type = "account_snapshot" => Len(account_queues[sid].items) < MaxFills
        /\ strategy.records => Len(strategy.events) < MaxCalls

RecvWhileBusy(f, mode) ==
    /\ reader.pc # "stopped"
    /\ mode \in {"return", "raise"}
    /\ Deliverable(f)
    /\ Dispatch(f, mode, None)

\* websocket.py:384-396: one turn of _recv_loop: a frame is read and
\* dispatched, with a strategy whose callback returns or raises.
Recv(f, mode) ==
    /\ reader.pc = "recv"
    /\ mode \in {"return", "raise"}
    /\ Deliverable(f)
    /\ Dispatch(f, mode, None)

\* The same turn for a tick whose on_tick awaits the blocking order API.
RecvAwaitOrder(f, rid) ==
    /\ reader.pc = "recv"
    /\ f.type = "tick"
    /\ f.data.session_id # Missing
    /\ stores[f.data.session_id].present
    /\ task["cb"].pc = "idle"
    /\ Deliverable(f)
    /\ Dispatch(f, "await_order", rid)

\* The same turn for a tick whose on_tick uses the nowait order API.
RecvNowaitOrder(f) ==
    /\ reader.pc = "recv"
    /\ f.type = "tick"
    /\ f.data.session_id # Missing
    /\ stores[f.data.session_id].present
    /\ task["bg"].pc = "idle"
    /\ Deliverable(f)
    /\ Dispatch(f, "nowait_order", None)

\* The same turn for a tick of a warm session whose strategy is a
\* DecisionOnlyStrategy (strategy.py:64-86) and whose on_tick returns a
\* non-empty list of OrderSpec: line 494 awaits on_tick and drops its value.
RecvDecision(f) ==
    /\ reader.pc = "recv"
    /\ f.type = "tick"
    /\ f.data.session_id # Missing
    /\ stores[f.data.session_id].present
    /\ Deliverable(f)
    /\ Dispatch(f, "intents", None)

\* websocket.py:388 and 400-402: recv() raises (the transport failed); the
\* handler of _recv_loop fails what is pending and the loop is over.
TransportFails ==
    /\ reader.pc = "recv"
    /\ RecvLoopFails(stores)

\* websocket.py:389-390: recv() returns None and the loop is left by `break`.
EndOfStream ==
    /\ reader.pc = "recv"
    /\ reader' = ReaderAt("stopped")
    /\ UNCHANGED <<ws, closed, reqVars, sessVars, queueVars, task, sent, strategy>>

\* websocket.py:386-402 for a _recv_loop task that self._reader_task no longer
\* refers to: its recv() returns None or the loop condition is false (the
\* task just ends), or its recv() raises, as a second recv() on a socket
\* another task is reading does (the handler fails what is pending).
OrphanStops(raised) ==
    /\ reader.orphans > 0
    /\ reader' = [reader EXCEPT !.orphans = @ - 1]
    /\ IF raised
       THEN /\ task' = FailAllTasks(task, LoopFailed)
            /\ pending_by_request' = [r \in Rids |-> None]
            /\ pending_by_session' = [s \in Sids |-> NoPending]
       ELSE UNCHANGED <<task, pending_by_request, pending_by_session>>
    /\ UNCHANGED <<ws, closed, req_meta_by_rid, session_meta, stores,
                   store_ready_events, queueVars, sent, strategy>>

\* websocket.py:387-396 for such a task: the recv() it was suspended in
\* returns a frame (of the socket it was opened on, or of the one it shares
\* with the current reader) and the task dispatches it.  The loop condition
\* (closed, no socket) is only tested before the next recv().
OrphanRecv(f) ==
    /\ reader.orphans > 0
    /\ Deliverable(f)
    /\ Dispatch(f, "return", None)
    /\ reader' = reader

\* websocket.py:391-396 and 404-405: a frame that is no JSON object.  Text
\* that json.loads rejects ("garbage") is skipped by `continue`; a JSON array,
\* string, number or null ("nonobject") reaches _dispatch, where obj.get
\* raises AttributeError, which leaves the loop through its handler.
RecvRaw(kind) ==
    /\ reader.pc = "recv"
    /\ kind \in {"garbage", "nonobject"}
    /\ IF kind = "garbage" THEN UNCHANGED vars ELSE RecvLoopFails(stores)

\* websocket.py:108-123 close(): the reader task is cancelled (CancelledError
\* is re-raised by _recv_loop, lines 397-399, so _fail_all_pending does not
\* run) and the socket is dropped.  A callback suspended inside the reader is
\* cancelled with it.
Close ==
    /\ closed' = TRUE
    /\ reader' = IF reader.pc = "none" THEN reader ELSE ReaderAt("stopped")
    /\ ws' = "none"
    /\ task' = IF reader.pc = "callback"
               THEN [task EXCEPT !["cb"] =
                        Done(@, Raised([kind |-> "CancelledError", session_id |-> None,
                                        error_code |-> None, message |-> None]))]
               ELSE task
    /\ UNCHANGED <<reqVars, sessVars, queueVars, sent, strategy>>

\* ------------------------------------------------------------ the server

\* The ack fields of a data object: all three well-formed, or one of them
\* absent or of the wrong type.
AckShapes ==
    {[batch_id |-> "b1", accepted_orders |-> "list", rejected_orders |-> "dict"],
     [batch_id |-> Missing, accepted_orders |-> "list", rejected_orders |-> "dict"],
     [batch_id |-> "b1", accepted_orders |-> Missing, rejected_orders |-> "dict"],
     [batch_id |-> "b1", accepted_orders |-> "list", rejected_orders |-> Missing]}

RidVals == Rids \cup {Missing}

\* Response envelopes whose data a caller may come to read: any request id,
\* session id and ack fields.
ResponseFrames(types, sids) ==
    {MkFrame(t, r, MkData(s, a.batch_id, a.accepted_orders, a.rejected_orders,
                          Missing, Missing, NoCandles)) :
        t \in types, r \in RidVals, s \in sids, a \in AckShapes}

\* What a session_error says: a string error_code and message, or neither.
ErrorInfos ==
    {[error_code |-> "DATA_FETCH_FAILED", message |-> "boom"],
     [error_code |-> Missing, message |-> Missing]}

\* session_error envelopes: any request id and session id, with or without a
\* string error_code and message.
ErrorFrames(sids) ==
    {MkFrame("session_error", r,
             MkData(s, Missing, Missing, Missing, e.error_code, e.message, NoCandles)) :
        r \in RidVals, s \in sids, e \in ErrorInfos}

\* Envelopes of a type _dispatch does not know ("error", "connection_ready",
\* "ping", "heartbeat", no type).
OtherFrames(sids) ==
    {MkFrame("error", r, MkData(s, Missing, Missing, Missing, "INVALID", Missing, NoCandles)) :
        r \in RidVals, s \in sids}

\* The frames of the request/response exchanges.
RequestFrames ==
    ResponseFrames({"session_created", "batch_ack"}, {"s1", Missing})
        \cup ErrorFrames({"s1", Missing}) \cup OtherFrames({Missing})

\* The candles of one symbol in a snapshot: one to MaxCandles good candles.
CandleRows == UNION {[1..k -> {GoodCandle}] : k \in 1..MaxCandles}

\* The candle map of a history_snapshot.
SnapshotCandles == {<<[sym |-> y, rows |-> rows]>> : y \in Symbols, rows \in CandleRows}

\* The candle map of a tick: one candle per symbol, or no candle.
TickCandles == {NoCandles} \cup {<<[sym |-> y, rows |-> <<GoodCandle>>]>> : y \in Symbols}

\* Server-pushed session events (request_id null) of the sessions sids.
EventFrames(typ, sids, candles) ==
    {MkFrame(typ, Missing,
             MkData(s, Missing, Missing, Missing, Missing, Missing, k)) :
        s \in sids, k \in candles}

\* A well-formed batch_ack for request r.
AckFrame(r) == MkFrame("batch_ack", r,
                       MkData(Missing, "b1", "list", "dict", Missing, Missing, NoCandles))

\* The frames of a session "s1" that runs with a strategy.
CallbackFrames ==
    EventFrames("history_snapshot", {"s1"}, SnapshotCandles)
        \cup EventFrames("tick", {"s1"}, TickCandles)
        \cup EventFrames("simulation_end", {"s1"}, {NoCandles})
        \cup {AckFrame(r) : r \in Rids}

\* A warmup snapshot of one candle.
WarmupCandles == <<[sym |-> "AAPL", rows |-> <<GoodCandle>>]>>

\* session_created envelopes that open session "s1".
CreatedFrames ==
    {MkFrame("session_created", r,
             MkData("s1", Missing, Missing, Missing, Missing, Missing, NoCandles)) :
        r \in Rids}

\* The frames of two sessions: the milestones of both, the ticks of "s2", the
\* responses to requests, and session_error envelopes that name "s1" or no
\* session, with or without the request id of a request, an error_code and a
\* message.
SessionFrames ==
    CreatedFrames
        \cup EventFrames("history_snapshot", Sids, {WarmupCandles})
        \cup EventFrames("tick", {"s2"}, {NoCandles})
        \cup EventFrames("simulation_end", Sids, {NoCandles})
        \cup {AckFrame(r) : r \in Rids}
        \cup ErrorFrames({"s1", Missing})

\* Candle maps a snapshot or a tick may carry: well-formed, or with a candle
\* that does not coerce.
BadCandles == <<[sym |-> "AAPL", rows |-> <<BadCandle>>]>>

\* The frames of the life of one session "s1".
LifeFrames ==
    CreatedFrames
        \cup EventFrames("history_snapshot", {"s1"}, {WarmupCandles, BadCandles})
        \cup EventFrames("tick", {"s1"}, {WarmupCandles, BadCandles})
        \cup EventFrames("simulation_end", {"s1"}, {NoCandles})
        \cup {AckFrame(r) : r \in Rids}

\* A second candle, one bar later.
NextCandle == Candle(WireStr(2), WireNum(101))
\* A candle whose prices and volume are numeric strings.
StringCandle == Candle(WireStr(3), WireStr(102))
\* Candles that fail in the last coercion, and in the first.
BadVolumeCandle == [GoodCandle EXCEPT !.volume = WireJunk]
BadDateCandle == [GoodCandle EXCEPT !.date = WireNum(1)]

\* What a direct user of the Store hands to it: the candles of "AAPL", one or
\* two, each well-formed or not.
StoreCandleValues == {GoodCandle, NextCandle, StringCandle, BadVolumeCandle, BadDateCandle}
StoreCandles ==
    {<<[sym |-> "AAPL", rows |-> rows]>> :
        rows \in UNION {[1..k -> StoreCandleValues] : k \in 1..2}}
StoreTicks == {<<[sym |-> "AAPL", rows |-> <<c>>]>> : c \in StoreCandleValues}

\* The envelopes of a session "s1" that a recording strategy watches: warmup
\* snapshots with one candle or none, ticks with one of two candles, fills,
\* account snapshots and the end.
RecordedFrames ==
    EventFrames("history_snapshot", {"s1"}, {WarmupCandles, NoCandles})
        \cup EventFrames("tick", {"s1"},
                         {<<[sym |-> "AAPL", rows |-> <<c>>]>> : c \in {GoodCandle, NextCandle}})
        \cup EventFrames("execution_report", {"s1"}, {NoCandles})
        \cup EventFrames("account_snapshot", {"s1"}, {NoCandles})
        \cup EventFrames("simulation_end", {"s1"}, {NoCandles})

\* Two different fills of "s1" (the model tells them apart by the batch they
\* belong to), and the account snapshots and ticks of "s2".
QueueFrames ==
    {MkFrame("execution_report", Missing,
             MkData("s1", b, Missing, Missing, Missing, Missing, NoCandles)) :
        b \in {"b1", "b2"}}
      \cup EventFrames("account_snapshot", {"s2"}, {NoCandles})
      \cup EventFrames("tick", {"s2"}, TickCandles)

\* Envelopes of a type _dispatch has no branch for ("error", the handshake and
\* keepalive frames, no type), with any request id and session id and an
\* error code, and session events whose data has no string session_id.
IgnoredFrames ==
    {MkFrame(t, r, MkData(s, Missing, Missing, Missing, "INVALID", Missing, NoCandles)) :
        t \in {"error", "connection_ready", "ping", "heartbeat", Missing},
        r \in RidVals, s \in {"s1", Missing}}
      \cup UNION {EventFrames(t, {Missing}, {WarmupCandles}) :
                    t \in {"history_snapshot", "tick", "execution_report",
                            "account_snapshot", "simulation_end"}}

\* The snapshot, the fills and the end of "s1".
ConnFrames ==
    EventFrames("history_snapshot", {"s1"}, {WarmupCandles})
        \cup EventFrames("execution_report", {"s1"}, {NoCandles})
        \cup EventFrames("simulation_end", {"s1"}, {NoCandles})

\* The events of two sessions a recording strategy watches: the snapshot, a
\* tick, a fill, an account snapshot and the end of "s1", the snapshot and
\* the end of "s2".
GateFrames ==
    EventFrames("history_snapshot", Sids, {WarmupCandles})
        \cup EventFrames("tick", {"s1"}, {<<[sym |-> "AAPL", rows |-> <<NextCandle>>]>>})
        \cup EventFrames("execution_report", {"s1"}, {NoCandles})
        \cup EventFrames("account_snapshot", {"s1"}, {NoCandles})
        \cup EventFrames("simulation_end", Sids, {NoCandles})

\* The milestones of the sessions: warmup snapshots and ends.
MilestoneFrames ==
    EventFrames("history_snapshot", Sids, {WarmupCandles})
        \cup EventFrames("simulation_end", Sids, {NoCandles})

\* --------------------------------------------------------- specifications

\* Request/response correlation: two application tasks each issue one
\* start_simulation or submit_orders under a request id of their choice (the
\* same one, too) while the server sends any response envelope at any time.
Next ==
    \/ Connect
    \/ \E c \in AppTasks, r \in Rids : StartSimulation(c, r, TRUE)
    \/ \E c \in AppTasks, r \in Rids : SubmitOrders(c, "s1", r, TRUE)
    \/ \E c \in AppTasks : Resume(c)
    \/ \E f \in RequestFrames : Recv(f, "return")

Spec == Init /\ [][Next]_vars

\* The event loop runs every coroutine whose awaited future is done.
FairSpec == Spec /\ \A c \in AppTasks : WF_vars(Resume(c))

\* websocket.py:161 and 282: `request_id or str(uuid.uuid4())`: an id no
\* outstanding request uses.
Fresh(r) == pending_by_request[r] = None

\* A session with a strategy: on_tick returns, or awaits the blocking order
\* API, or calls the nowait one; an application task waits for the end of the
\* session and a subscriber drains the tick queue.
NextCb ==
    \/ Connect
    \/ WaitForSimulationEnd("t1", "s1")
    \/ \E r \in Rids : Fresh(r) /\ SubmitOrders("bg", "s1", r, TRUE)
    \/ \E c \in {"t1", "cb", "bg"} : Resume(c)
    \/ TakeTick("s1")
    \/ \E f \in CallbackFrames : Recv(f, "return")
    \/ \E f \in CallbackFrames, r \in Rids : Fresh(r) /\ RecvAwaitOrder(f, r)
    \/ \E f \in CallbackFrames : RecvNowaitOrder(f)

SpecCb == Init /\ [][NextCb]_vars

\* The event loop runs every ready coroutine and every created task, and the
\* server acknowledges an order_batch the client is waiting on: the receive
\* loop reads the ack whenever it is at its recv().
FairSpecCb ==
    /\ SpecCb
    /\ \A c \in {"t1", "cb", "bg"} : WF_vars(Resume(c))
    /\ WF_vars(\E r \in Rids : Fresh(r) /\ SubmitOrders("bg", "s1", r, TRUE))
    /\ \A r \in Rids : WF_vars(~Fresh(r) /\ Recv(AckFrame(r), "return"))

\* websocket.py:161 and 282: the uuid4 string the call of task c draws.
UuidOf == [c \in AppTasks |-> IF c = "t1" THEN "r1" ELSE "r2"]

\* Two sessions on one connection: application tasks run a session, wait for
\* its milestones or submit orders to it, while the server sends the events of
\* both sessions and session_error envelopes.
NextSess ==
    \/ Connect
    \/ \E c \in AppTasks : Run(c, UuidOf[c], TRUE)
    \/ \E c \in AppTasks : SubmitOrders(c, "s2", UuidOf[c], TRUE)
    \/ \E c \in AppTasks, s \in Sids : WaitForHistorySnapshot(c, s)
    \/ \E c \in AppTasks, s \in Sids : WaitForSimulationEnd(c, s)
    \/ \E c \in AppTasks, s \in Sids : WaitForStoreReady(c, s)
    \/ \E c \in AppTasks : Resume(c)
    \/ \E f \in SessionFrames : Recv(f, "return")

SpecSess == Init /\ [][NextSess]_vars

\* The life of the connection: application tasks run session "s1", submit
\* orders to it and wait for milestones of "s1" or "s2", while the server sends
\* the events of "s1" in any order, frames that are no JSON objects, candles
\* that do not coerce; the transport may fail or end and close() may be called.
NextLife ==
    \/ Connect
    \/ Close
    \/ \E c \in AppTasks : Run(c, UuidOf[c], TRUE)
    \/ \E c \in AppTasks : SubmitOrders(c, "s1", UuidOf[c], TRUE)
    \/ \E c \in AppTasks, s \in Sids : WaitForHistorySnapshot(c, s)
    \/ \E c \in AppTasks, s \in Sids : WaitForSimulationEnd(c, s)
    \/ \E c \in AppTasks, s \in Sids : WaitForStoreReady(c, s)
    \/ \E c \in AppTasks : Resume(c)
    \/ \E f \in LifeFrames : Recv(f, "return")
    \/ \E f \in LifeFrames : Recv(f, "raise")
    \/ \E k \in {"garbage", "nonobject"} : RecvRaw(k)
    \/ TransportFails
    \/ EndOfStream

SpecLife == Init /\ [][NextLife]_vars

\* A session whose strategy records its calls: the server sends the
\* envelopes of "s1" in any order and a subscriber drains the tick queue.
NextRec ==
    \/ Connect
    \/ \E f \in RecordedFrames : Recv(f, "return")
    \/ \E f \in RecordedFrames : RecvDecision(f)
    \/ TakeTick("s1")

SpecRec == InitWith(RecordingStrategy) /\ [][NextRec]_vars

\* Fan-out: the server pushes events of two sessions while consumers
\* subscribe, before or after the events, and take items off the queues.
NextQueue ==
    \/ Connect
    \/ \E f \in QueueFrames : Recv(f, "return")
    \/ \E s \in Sids : SubscribeTicks(s)
    \/ \E s \in Sids : SubscribeFills(s)
    \/ \E s \in Sids : SubscribeAccount(s)
    \/ \E s \in Sids : TakeTick(s)
    \/ \E s \in Sids : TakeFill(s)
    \/ \E s \in Sids : TakeAccount(s)

SpecQueue == Init /\ [][NextQueue]_vars

\* Rows the candle map would add to a series at most.
RowsIn(candles) == Len(candles[1].rows)

\* The Store class used directly: snapshots and ticks, well-formed or not,
\* are applied to the Stores of two sessions.
NextStore ==
    \/ \E s \in Sids : StoreNew(s)
    \/ \E s \in Sids, k \in StoreCandles :
          /\ StoreRows(stores[s]) + RowsIn(k) <= MaxRows
          /\ StoreApplyHistorySnapshot(s, k)
    \/ \E s \in Sids, k \in StoreTicks :
          /\ StoreRows(stores[s]) + RowsIn(k) <= MaxRows
          /\ StoreApplyTick(s, k)

SpecStore == Init /\ [][NextStore]_vars

\* Waiting with timeouts: two application tasks wait for milestones of the
\* sessions, a wait may time out, and the server sends the milestones.
NextWait ==
    \/ Connect
    \/ \E c \in AppTasks, s \in Sids : WaitForHistorySnapshot(c, s)
    \/ \E c \in AppTasks, s \in Sids : WaitForSimulationEnd(c, s)
    \/ \E c \in AppTasks, s \in Sids : WaitForStoreReady(c, s)
    \/ \E c \in AppTasks : Timeout(c)
    \/ \E c \in AppTasks : Resume(c)
    \/ \E f \in MilestoneFrames : Recv(f, "return")

SpecWait == Init /\ [][NextWait]_vars

\* Sends that may fail: two application tasks each issue one start_simulation
\* or submit_orders under a request id of their choice, the transport's send
\* returns or raises, and the server answers with session_created and batch_ack envelopes.
NextSend ==
    \/ Connect
    \/ \E c \in AppTasks, r \in Rids, ok \in BOOLEAN : StartSimulation(c, r, ok)
    \/ \E c \in AppTasks, r \in Rids, ok \in BOOLEAN : SubmitOrders(c, "s1", r, ok)
    \/ \E c \in AppTasks : Resume(c)
    \/ \E f \in CreatedFrames \cup {AckFrame(r) : r \in Rids} : Recv(f, "return")

SpecSend == Init /\ [][NextSend]_vars

\* A session with a recording strategy and work in progress (a
\* start_simulation and a wait for the snapshot of "s1" outstanding, fills
\* queued, then a warm Store) to which the server also sends envelopes
\* _dispatch has no use for.
NextIgnore ==
    \/ Connect
    \/ StartSimulation("t1", "r1", TRUE)
    \/ WaitForHistorySnapshot("t2", "s1")
    \/ \E c \in AppTasks : Resume(c)
    \/ \E f \in CreatedFrames
                 \cup EventFrames("history_snapshot", {"s1"}, {WarmupCandles})
                 \cup EventFrames("execution_report", {"s1"}, {NoCandles}) :
          Recv(f, "return")
    \/ \E f \in IgnoredFrames : Recv(f, "return")

SpecIgnore == InitWith(RecordingStrategy) /\ [][NextIgnore]_vars

\* Connecting: two application tasks call connect() on one session object, one
\* after the other or both before either socket is open; close() may be
\* called, and the server sends the snapshot, fills and the end of "s1".
NextConn ==
    \/ \E c \in AppTasks : ConnectBegin(c)
    \/ \E c \in AppTasks : ConnectOpened(c)
    \/ Close
    \/ \E raised \in BOOLEAN : OrphanStops(raised)
    \/ \E f \in ConnFrames : Recv(f, "return")
    \/ \E f \in ConnFrames : OrphanRecv(f)

SpecConn == InitWith(RecordingStrategy) /\ [][NextConn]_vars

\* Two sessions with a recording strategy: the server sends the events of
\* both in any order, before and after their snapshots.
NextGate ==
    \/ Connect
    \/ \E f \in GateFrames : Recv(f, "return")

SpecGate == InitWith(RecordingStrategy) /\ [][NextGate]_vars

\* ------------------------------------------------------------------ claims

\* C1: an on_tick that awaits the blocking order API does not deadlock: its
\* order_batch is sent, the receive loop reads the batch_ack, and on_tick
\* completes.
C1_OnTickCompletes ==
    (task["cb"].pc = "await_req") ~> (task["cb"].pc = "done")

C3_StartReturnsCreatedSessionId ==
    [][\A c \in AppTasks :
          LET t == task[c]
              env == task[c].fut.val
          IN (t.op = "start_simulation" /\ t.pc = "await_req" /\ task'[c].pc = "done")
             => /\ task'[c].out.kind = "returned"
                    => /\ env.type = "session_created"
                       /\ env.request_id = t.rid
                       /\ task'[c].out.sid = env.data.session_id
                /\ (t.fut.st = "result" /\ env.data.session_id = Missing)
                    => /\ task'[c].out.kind = "raised"
                       /\ task'[c].out.err.kind = "SessionProtocolError"
      ]_vars

\* C4: whenever a submit_orders call returns, the value is the data of the
\* batch_ack envelope carrying the call's own request id, in whatever order
\* the acks of concurrent calls arrive.
C4_SubmitReturnsOwnAck ==
    [][\A c \in AppTasks :
          LET t == task[c]
              env == task[c].fut.val
          IN (t.op = "submit_orders" /\ t.pc = "await_req" /\ task'[c].pc = "done"
                  /\ task'[c].out.kind = "returned")
             => /\ env.type = "batch_ack"
                /\ env.request_id = t.rid
                /\ task'[c].out.val.data = env.data
      ]_vars

\* C5: a pending request is resolved only by a response of the matching
\* outcome type: the future of a start_simulation holds a result only from a
\* session_created envelope, that of a submit_orders only from a batch_ack.
C5_ResolvedOnlyByMatchingType ==
    \A c \in Callers :
        (task[c].pc = "await_req" /\ task[c].fut.st = "result") =>
            /\ task[c].op \in {"start_simulation", "run"}
                   => task[c].fut.val.type = "session_created"
            /\ task[c].op = "submit_orders" => task[c].fut.val.type = "batch_ack"

\* C6: the entry of a pending request leaves the map exactly when its future is
\* completed, and a completed future and a delivered outcome never change
\* again; an envelope whose request_id has no entry therefore changes nothing:
\* an empty slot of the map is filled only by a call registering itself.
C6_RemovedAndCompletedOnce ==
    [][/\ \A c \in Callers :
              /\ (task[c].pc = "await_req" /\ FutDone(task[c].fut))
                     => (task'[c].fut = task[c].fut \/ task'[c].pc = "done")
              /\ (task[c].pc = "await_req" /\ task[c].fut.st = "pending"
                      /\ FutDone(task'[c].fut))
                     => \E r \in Rids : /\ pending_by_request[r] = c
                                        /\ pending_by_request'[r] = None
              /\ task[c].pc = "done" => task'[c] = task[c]
       /\ \A r \in Rids : \A c \in Callers :
              /\ (pending_by_request[r] = c /\ pending_by_request'[r] = None)
                     => (task[c].fut.st = "pending" /\ FutDone(task'[c].fut))
              /\ (pending_by_request[r] = None /\ pending_by_request'[r] = c)
                     => (task[c].pc # "await_req" /\ task'[c].pc = "await_req"
                             /\ task'[c].rid = r)
      ]_vars

C6_Witness ==
    \E c \in AppTasks :
        /\ task[c].pc = "await_req" /\ FutDone(task[c].fut)
        /\ pending_by_request[task[c].rid] = None

\* The future caller c awaits holds a batch_ack with a field missing.
C7_BadAckHeld(c) ==
    /\ task[c].op = "submit_orders" /\ task[c].pc = "await_req"
    /\ task[c].fut.st = "result" /\ task[c].fut.val.type = "batch_ack"
    /\ \/ task[c].fut.val.data.batch_id = Missing
       \/ task[c].fut.val.data.accepted_orders = Missing
       \/ task[c].fut.val.data.rejected_orders = Missing

C7_ProtocolErrorRaised(t) ==
    /\ t.pc = "done" /\ t.op = "submit_orders" /\ t.out.kind = "raised"
    /\ t.out.err.kind = "SessionProtocolError"

\* C7: a submit_orders call whose batch_ack lacks a string batch_id, a list
\* accepted_orders or an object rejected_orders raises a protocol error: it
\* returns no ack, it does not stay suspended, and the receive loop, which
\* resolved the future, is reading on.
C7_MalformedAckRaises ==
    /\ [][\A c \in AppTasks :
             (C7_BadAckHeld(c) /\ task'[c] # task[c])
                 => C7_ProtocolErrorRaised(task'[c])
        ]_vars
    /\ [](\A c \in AppTasks : C7_BadAckHeld(c) => reader.pc = "recv")
    /\ \A c \in AppTasks : C7_BadAckHeld(c) ~> C7_ProtocolErrorRaised(task[c])

C7_Witness ==
    \E c \in AppTasks :
        /\ task[c].pc = "done" /\ task[c].op = "submit_orders"
        /\ task[c].out.kind = "raised"
        /\ task[c].out.err =
               SessionProtocolError("Invalid batch_ack payload: accepted_orders must be a list")
        /\ reader.pc = "recv"

\* C8: a session_error envelope carrying the request id of a pending request
\* removes the entry and fails the call with a SessionError holding the
\* envelope's error_code ("UNKNOWN" when it has none) and message, which the
\* call then raises, whether the session the envelope names is unknown, warming
\* up, running or over.
C8_SessionErrorRejectsRequest ==
    [][\A c \in AppTasks :
          /\ \A f \in ErrorFrames({"s1", Missing}) :
                (/\ task[c].pc = "await_req" /\ task[c].fut.st = "pending"
                 /\ f.request_id # Missing
                 /\ pending_by_request[f.request_id] = c
                 /\ Recv(f, "return"))
                => /\ task'[c].fut.st = "exception"
                   /\ task'[c].fut.err.kind = "SessionError"
                   /\ task'[c].fut.err.error_code =
                          IF f.data.error_code = Missing THEN "UNKNOWN"
                          ELSE f.data.error_code
                   /\ task'[c].fut.err.message =
                          IF f.data.message = Missing THEN "" ELSE f.data.message
                   /\ pending_by_request'[f.request_id] = None
          /\ (/\ task[c].pc = "await_req" /\ task[c].fut.st = "exception"
              /\ task'[c] # task[c])
                => (task'[c].pc = "done" /\ task'[c].out = Raised(task[c].fut.err))
      ]_vars

C8_Witness ==
    \E c \in AppTasks :
        /\ task[c].pc = "done"
        /\ task[c].out.kind = "raised"
        /\ task[c].out.err.kind = "SessionError"
        /\ task[c].out.err.error_code = "UNKNOWN"
        /\ task[c].out.err.session_id = "s1"
        /\ stores["s1"].present
        /\ pending_by_session["s1"].ended.st = "result"

\* The session_error envelopes that name session "s1".
ErrorsNamingS1 == {f \in SessionFrames : f.type = "session_error" /\ f.data.session_id = "s1"}

\* C9: when a session_error naming session S is dispatched, every caller still
\* waiting for a milestone of S (history snapshot, Store ready, simulation
\* end, run) is rejected with that session error.
C9_SessionErrorRejectsWaiters ==
    [][\A c \in AppTasks :
          (/\ task[c].sid = "s1"
           /\ \/ task[c].pc \in {"await_history", "await_ended"}
                    /\ task[c].fut.st = "pending"
              \/ task[c].pc = "await_event" /\ store_ready_events["s1"] # "set")
          => \A f \in ErrorsNamingS1 :
                Recv(f, "return")
                => \/ /\ task'[c].fut.st = "exception"
                      /\ task'[c].fut.err = ErrorOf(f)
                   \/ /\ task'[c].pc = "done"
                      /\ task'[c].out = Raised(ErrorOf(f))
      ]_vars

\* C10 as stated: a session_error naming S leaves the waiters, Stores, queues
\* and pending requests of every other session unchanged.
C10_OtherSessionsUntouched ==
    [][\A f \in ErrorsNamingS1 :
          Recv(f, "return")
          => /\ pending_by_session'["s2"] = pending_by_session["s2"]
             /\ stores'["s2"] = stores["s2"]
             /\ store_ready_events'["s2"] = store_ready_events["s2"]
             /\ tick_queues'["s2"] = tick_queues["s2"]
             /\ fill_queues'["s2"] = fill_queues["s2"]
             /\ account_queues'["s2"] = account_queues["s2"]
             /\ \A c \in AppTasks :
                   task[c].sid = "s2"
                   => /\ task'[c] = task[c]
                      /\ \A r \in Rids : pending_by_request[r] = c
                                            => pending_by_request'[r] = c
      ]_vars

\* C10 amended: a session_error naming S leaves the waiters, Stores and queues
\* of every other session unchanged, and every pending request but the one
\* registered under the request id the envelope itself carries (either that
\* holds of a step or the step is not the dispatch of such an envelope); the
\* later events of the other sessions still resolve their waiters.
C10_OtherSessionsUntouchedButRequest ==
    [][/\ \A f \in ErrorsNamingS1 :
             \/ /\ pending_by_session'["s2"] = pending_by_session["s2"]
                /\ stores'["s2"] = stores["s2"]
                /\ store_ready_events'["s2"] = store_ready_events["s2"]
                /\ tick_queues'["s2"] = tick_queues["s2"]
                /\ fill_queues'["s2"] = fill_queues["s2"]
                /\ account_queues'["s2"] = account_queues["s2"]
                /\ \A c \in AppTasks :
                      (task[c].sid = "s2" /\ task[c].rid # f.request_id)
                      => /\ task'[c] = task[c]
                         /\ \A r \in Rids : pending_by_request[r] = c
                                               => pending_by_request'[r] = c
             \/ ~Recv(f, "return")
       /\ \A g \in EventFrames("history_snapshot", {"s2"}, {WarmupCandles})
                      \cup EventFrames("simulation_end", {"s2"}, {NoCandles}) :
             \A c \in AppTasks :
                (/\ task[c].sid = "s2" /\ task[c].fut.st = "pending" /\ task[c].held
                 /\ task[c].pc = (IF g.type = "history_snapshot" THEN "await_history"
                                  ELSE "await_ended")
                 /\ Recv(g, "return"))
                => task'[c].fut = ResultFut(g)
      ]_vars

C10_Witness ==
    \E c, d \in AppTasks :
        /\ task[c].pc = "done"
        /\ task[c].out.kind = "raised"
        /\ task[c].out.err.kind = "SessionError"
        /\ task[c].out.err.session_id = "s1"
        /\ task[d].sid = "s2"
        /\ task[d].pc \in {"await_history", "await_ended"}
        /\ task[d].fut.st = "result"

\* C11: a caller that starts to wait for the end of session S (through
\* wait_for_simulation_end or run) after the simulation_end of S was
\* dispatched gets that payload: the future it awaits holds the result.
C11_EndWaitAfterEnd ==
    [][\A c \in AppTasks : \A s \in Sids :
          (/\ task[c].pc # "await_ended"
           /\ task'[c].pc = "await_ended" /\ task'[c].sid = s
           /\ pending_by_session[s].present
           /\ pending_by_session[s].ended.st = "result")
          => task'[c].fut = pending_by_session[s].ended
      ]_vars

\* C12: a caller that starts wait_for_history_snapshot(S) after the
\* history_snapshot of S was dispatched (the Store of S exists) gets that
\* snapshot: the future it awaits holds a result, it does not wait for a
\* second snapshot.
C12_HistoryWaitAfterSnapshot ==
    [][\A c \in AppTasks : \A s \in Sids :
          (/\ task[c].pc = "idle"
           /\ task'[c].pc = "await_history" /\ task'[c].sid = s
           /\ stores[s].present)
          => task'[c].fut.st = "result"
      ]_vars

\* C13: is_store_ready(S) is true exactly when get_store(S) is not None; a
\* wait_for_store_ready(S) made when the Store exists returns it at once, one
\* made before can go on as soon as the snapshot is dispatched, and whenever
\* the call ends it returns the Store and does not raise.
C13_StoreReadyReturnsStore ==
    /\ [](\A s \in Sids : (store_ready_events[s] = "set") <=> stores[s].present)
    /\ [](\A c \in AppTasks :
             (task[c].pc = "await_event" /\ stores[task[c].sid].present)
                 => ENABLED Resume(c))
    /\ [][\A c \in AppTasks :
             /\ \A s \in Sids :
                   (task[c].pc = "idle" /\ stores[s].present)
                       => ~(task'[c].pc = "await_event" /\ task'[c].sid = s)
             /\ (task[c].pc # "done" /\ task'[c].pc = "done"
                     /\ task'[c].op = "wait_for_store_ready")
                    => /\ task'[c].out.kind = "returned"
                       /\ \E s \in Sids : task'[c].out.sid = s /\ stores'[s].present
        ]_vars

C13_Witness ==
    \E c, d \in AppTasks :
        /\ c # d
        /\ task[c].op = "wait_for_store_ready" /\ task[c].pc = "done"
        /\ task[c].out = ReturnedSid("s1")
        /\ task[d].op = "wait_for_store_ready" /\ task[d].pc = "await_event"
        /\ task[d].sid = "s1"
        /\ stores["s1"].present


\* A coroutine that is suspended on something not yet there: a pending future,
\* or a store-ready event that is not set.
Waiting(tk, c) ==
    \/ tk[c].pc \in {"await_req", "await_history", "await_ended"} /\ tk[c].fut.st = "pending"
    \/ tk[c].pc = "await_event" /\ store_ready_events[tk[c].sid] # "set"

\* C14: when the transport read fails inside the receive loop, the loop stops
\* and every caller that was waiting at that moment (on a request, a history
\* snapshot, a store-ready event or a simulation end) has been rejected: none
\* of them is still waiting afterwards.
C14_TransportFailureRejectsAll ==
    [][TransportFails =>
          /\ reader'.pc = "stopped"
          /\ \A c \in AppTasks :
                Waiting(task, c) => task'[c].fut.st = "exception" ]_vars

\* C15: when close() has completed, every caller that was waiting on a pending
\* request or on a waiter when it was called has been rejected.
C15_CloseRejectsAll ==
    [][Close => \A c \in AppTasks :
                   Waiting(task, c) => task'[c].fut.st = "exception" ]_vars

\* C16: a start_simulation, run, submit_orders, wait_for_simulation_end or
\* wait_for_store_ready call (none of which takes a timeout by default) that
\* is made after the receive loop has stopped, while the socket is still
\* there, ends with an error (or with what is already at hand) instead of
\* suspending on something that can no longer be delivered.
C16_NoWaitOnStoppedLoop ==
    [][\A c \in AppTasks :
          (/\ reader.pc = "stopped" /\ ws = "open" /\ ~closed
           /\ task[c].pc = "idle" /\ task'[c].pc # "idle"
           /\ task'[c].op # "wait_for_history_snapshot")
          => ~Waiting(task', c) ]_vars

\* C17: a frame that is no parseable JSON, or JSON that is no object, is
\* discarded: the loop keeps reading and nothing pending is touched.
C17_NonObjectDiscarded ==
    [][\A k \in {"garbage", "nonobject"} : RecvRaw(k) => UNCHANGED vars]_vars

\* history_snapshot and tick envelopes of "s1" whose candle does not coerce.
C18_BadCandleFrames ==
    EventFrames("history_snapshot", {"s1"}, {BadCandles})
        \cup EventFrames("tick", {"s1"}, {BadCandles})

\* C18: a history_snapshot or tick whose candle data does not coerce does not
\* stop the receive loop, and the requests and the waiters of other sessions
\* are left as they are.
C18_CoercionErrorNotFatal ==
    [][\A f \in C18_BadCandleFrames :
          \/ /\ reader'.pc = "recv"
             /\ pending_by_request' = pending_by_request
             /\ \A c \in AppTasks : task[c].sid # "s1" => task'[c] = task[c]
          \/ ~Recv(f, "return") ]_vars


\* Dispatching envelope f gets as far as its strategy callback.
C19_CallbackRuns(f) ==
    LET sid == f.data.session_id IN
    /\ sid # Missing
    /\ \/ f.type = "history_snapshot" /\ FromHistory(f.data.candles).ok
       \/ f.type = "tick" /\ stores[sid].present
              /\ ApplyTick(stores[sid], f.data.candles).ok
       \/ f.type \in {"execution_report", "account_snapshot", "simulation_end"}
              /\ stores[sid].present

C20_NothingDispatchedMeanwhile ==
    [][reader.pc = "callback" =>
          /\ stores' = stores
          /\ store_ready_events' = store_ready_events
          /\ fill_queues' = fill_queues
          /\ account_queues' = account_queues
          /\ \A r \in Rids : pending_by_request[r] # None
                               => pending_by_request'[r] = pending_by_request[r]
          /\ \A c \in Callers : task[c].fut.st = "pending" => task'[c].fut.st = "pending"
          /\ \/ /\ reader' = reader
                /\ \A s \in Sids :
                      Len(tick_queues'[s].items) <= Len(tick_queues[s].items)
             \/ /\ reader'.pc = "recv"
                /\ task'["cb"].pc = "done"
                /\ tick_queues' = QueuePut(tick_queues, reader.frame.data.session_id,
                                           reader.frame.data) ]_vars

\* The callback in progress is the one of the envelope the loop is at.
C20_OneCallbackAtATime ==
    [](task["cb"].pc = "await_req" <=> reader.pc = "callback")

CallbackOf(typ) ==
    CASE typ = "history_snapshot" -> "on_session_start"
      [] typ = "tick" -> "on_tick"
      [] typ = "execution_report" -> "on_fill"
      [] typ = "account_snapshot" -> "on_account_snapshot"
      [] typ = "simulation_end" -> "on_session_end"
      [] OTHER -> None

\* The positions of the recorded calls.
CallIdx == 1..Len(strategy.events)

\* Every on_tick of a session comes after an on_session_start of it.
C21_StartBeforeTick ==
    [](\A i \in CallIdx :
          strategy.events[i].cb = "on_tick"
          => \E j \in 1..(i - 1) : /\ strategy.events[j].cb = "on_session_start"
                                   /\ strategy.events[j].sid = strategy.events[i].sid)

\* A tick or a simulation_end of a warm session is recorded as the last call
\* in the very step that dispatches it: every tick that arrived earlier has
\* its on_tick earlier in the list.
C21_RecordedOnArrival ==
    [][\A f \in RecordedFrames :
          \/ ~(f.type \in {"tick", "simulation_end"} /\ stores[f.data.session_id].present)
          \/ /\ Len(strategy'.events) = Len(strategy.events) + 1
             /\ SubSeq(strategy'.events, 1, Len(strategy.events)) = strategy.events
             /\ strategy'.events[Len(strategy'.events)].cb = CallbackOf(f.type)
             /\ strategy'.events[Len(strategy'.events)].data = f.data
          \/ ~Recv(f, "return") ]_vars

\* C21: in the calls a recording strategy sees for one session,
\* on_session_start comes before any on_tick, and on_session_end comes after
\* the on_tick of every tick that arrived before the simulation_end.
C21_CallbackOrder ==
    /\ C21_StartBeforeTick
    /\ C21_RecordedOnArrival

\* start, tick, end were recorded for "s1", in that order.
C21_Witness ==
    \E i, j, k \in CallIdx :
        /\ i < j /\ j < k
        /\ strategy.events[i].cb = "on_session_start"
        /\ strategy.events[j].cb = "on_tick"
        /\ strategy.events[k].cb = "on_session_end"


\* C22: the ended state is terminal: once on_session_end was invoked for a
\* session, no further callback is invoked for that session, whatever
\* envelopes of it arrive.
C22_NoCallbackAfterEnd ==
    \A i, j \in CallIdx :
        (i < j /\ strategy.events[i].cb = "on_session_end")
        => strategy.events[j].sid # strategy.events[i].sid

\* on_session_start is invoked at most once per session.
C23_StartAtMostOnce ==
    [](\A i, j \in CallIdx :
          (/\ strategy.events[i].cb = "on_session_start"
           /\ strategy.events[j].cb = "on_session_start"
           /\ strategy.events[i].sid = strategy.events[j].sid) => i = j)

\* Series a is the beginning of series b.
C23_Extends(a, b) ==
    /\ Len(a.date) <= Len(b.date)
    /\ SubSeq(b.date, 1, Len(a.date)) = a.date
    /\ SubSeq(b.close, 1, Len(a.close)) = a.close

\* The Store of a warm session only grows: every row it holds stays.
C23_StoreKept ==
    [][\A s \in Sids : stores[s].present =>
          /\ stores'[s].present
          /\ \A y \in DOMAIN stores[s].by_symbol :
                /\ y \in DOMAIN stores'[s].by_symbol
                /\ C23_Extends(stores[s].by_symbol[y], stores'[s].by_symbol[y]) ]_vars

\* C23: a session never goes backward: on_session_start is invoked at most
\* once per session id, and the Store of a warm session is never replaced or
\* re-initialised by a further history_snapshot.
C23_NeverBackward ==
    /\ C23_StartAtMostOnce
    /\ C23_StoreKept

\* The last row of series ser is candle c.
C26_LastRowIs(ser, c) ==
    LET n == Len(ser.date) IN
    /\ n > 0
    /\ ser.date[n] = c.date.v /\ ser.open[n] = c.open.v /\ ser.high[n] = c.high.v
    /\ ser.low[n] = c.low.v /\ ser.close[n] = c.close.v /\ ser.volume[n] = c.volume.v

\* The Store on_tick is called with holds the tick: for every symbol of the
\* tick's candle map, the last row of its series is the tick's candle.
C26_StoreHoldsTick ==
    [](\A i \in CallIdx :
          strategy.events[i].cb = "on_tick" =>
             LET cs == strategy.events[i].data.candles
                 st == strategy.events[i].store
             IN /\ st.present
                /\ \A k \in 1..Len(cs) :
                      /\ cs[k].sym \in DOMAIN st.by_symbol
                      /\ C26_LastRowIs(st.by_symbol[cs[k].sym], cs[k].rows[1]))

C26_IsOnTick(e) == e.cb = "on_tick"

\* Each tick envelope of a warm session makes exactly one on_tick call.
C26_OncePerTick ==
    [][\A f \in RecordedFrames :
          \/ ~(f.type = "tick" /\ stores[f.data.session_id].present)
          \/ Len(SelectSeq(strategy'.events, C26_IsOnTick))
                = Len(SelectSeq(strategy.events, C26_IsOnTick)) + 1
          \/ ~Recv(f, "return") ]_vars

C30_ErrorFrame(r) ==
    MkFrame("error", r, MkData(Missing, Missing, Missing, Missing, "INVALID", Missing, NoCandles))

\* C30: an envelope of type "error" that carries the request id of a pending
\* submit_orders call rejects that call's future with SessionProtocolError:
\* whenever the loop is about to read it, dispatching it does so.
C30_ErrorRejectsSubmit ==
    \A r \in Rids : \A c \in AppTasks :
        (/\ reader.pc = "recv"
         /\ pending_by_request[r] = c
         /\ task[c].op = "submit_orders" /\ task[c].pc = "await_req"
         /\ task[c].fut.st = "pending")
        => ENABLED (/\ Recv(C30_ErrorFrame(r), "return")
                    /\ task'[c].fut.st = "exception"
                    /\ task'[c].fut.err.kind = "SessionProtocolError")


\* A subscribe_* call hands back the queue that is there, with what it holds,
\* and makes an empty one only when there is none.
C24_SubscribeKeepsQueue ==
    [][\A s \in Sids :
          /\ SubscribeTicks(s) =>
                /\ tick_queues'[s].present
                /\ tick_queues'[s].items = tick_queues[s].items
          /\ SubscribeFills(s) =>
                /\ fill_queues'[s].present
                /\ fill_queues'[s].items = fill_queues[s].items
          /\ SubscribeAccount(s) =>
                /\ account_queues'[s].present
                /\ account_queues'[s].items = account_queues[s].items ]_vars

\* The queue of envelope f's class.
C24_QueueOf(f, tq, fq, aq) ==
    CASE f.type = "tick" -> tq[f.data.session_id]
      [] f.type = "execution_report" -> fq[f.data.session_id]
      [] OTHER -> aq[f.data.session_id]

\* A dispatched event goes to the tail of the queue of its session and class,
\* whether that queue existed or not.
C24_PutAtTail ==
    [][\A f \in QueueFrames :
          \/ C24_QueueOf(f, tick_queues', fill_queues', account_queues').items
                = Append(C24_QueueOf(f, tick_queues, fill_queues, account_queues).items,
                         f.data)
          \/ ~Recv(f, "return") ]_vars

\* Queue q1 follows q: the same, one item more at the tail, or the head taken.
C24_Fifo(q, q1) ==
    /\ q.present => q1.present
    /\ \/ q1.items = q.items
       \/ Len(q1.items) = Len(q.items) + 1 /\ SubSeq(q1.items, 1, Len(q.items)) = q.items
       \/ q.items # << >> /\ q1.items = Tail(q.items)

\* No step drops, reorders or duplicates what a queue holds.
C24_NothingLost ==
    [][\A s \in Sids :
          /\ C24_Fifo(tick_queues[s], tick_queues'[s])
          /\ C24_Fifo(fill_queues[s], fill_queues'[s])
          /\ C24_Fifo(account_queues[s], account_queues'[s]) ]_vars

C25_EqualLengths(ser) ==
    /\ Len(ser.open) = Len(ser.date) /\ Len(ser.high) = Len(ser.date)
    /\ Len(ser.low) = Len(ser.date) /\ Len(ser.close) = Len(ser.date)
    /\ Len(ser.volume) = Len(ser.date)

\* In every state of a Store the sequences of each symbol have equal length.
C25_LengthsAgree ==
    [](\A s \in Sids : \A y \in DOMAIN stores[s].by_symbol :
          C25_EqualLengths(stores[s].by_symbol[y]))

\* The candles of rows that come before the first one that does not coerce.
RECURSIVE C25_GoodPrefix(_)
C25_GoodPrefix(rows) ==
    IF rows = << >> \/ ~CoerceOk(Head(rows)) THEN 0
    ELSE 1 + C25_GoodPrefix(Tail(rows))

\* Rows of "AAPL" in the Store of s.
C25_Rows(st, s) == Len(SeriesOf(st[s].by_symbol, "AAPL").date)

\* A snapshot adds one row per candle and a tick one row, and a candle that
\* does not coerce adds nothing: a warmup of k candles followed by N applied
\* ticks leaves k + N rows.
C25_RowsCount ==
    [][\A s \in Sids :
          /\ \A k \in StoreCandles :
                StoreApplyHistorySnapshot(s, k) =>
                   C25_Rows(stores', s) = C25_Rows(stores, s) + C25_GoodPrefix(k[1].rows)
          /\ \A k \in StoreTicks :
                StoreApplyTick(s, k) =>
                   C25_Rows(stores', s) = C25_Rows(stores, s)
                                            + (IF CoerceOk(k[1].rows[1]) THEN 1 ELSE 0) ]_vars

\* C25: in every reachable state of a Store the date, open, high, low, close
\* and volume sequences of each symbol have equal length, also after an
\* apply_history_snapshot or apply_tick that failed on a coercion; after a
\* warmup of k candles and N applied ticks that length is k + N.
C25_StoreAppendInvariant ==
    /\ C25_LengthsAgree
    /\ C25_RowsCount

\* A Store holds a warmup candle and a tick, and another one is left with an
\* empty series by a tick that did not coerce.
C25_Witness ==
    /\ stores["s1"].present /\ C25_Rows(stores, "s1") = 2
    /\ stores["s2"].present /\ "AAPL" \in DOMAIN stores["s2"].by_symbol
    /\ C25_Rows(stores, "s2") = 0


\* C27: a facade operation invoked while the session is not connected raises
\* the usage error at the call site, sends nothing and registers no pending
\* request, waiter or event.
C27_NotConnectedRaises ==
    [][\A c \in AppTasks :
          (ws = "none" /\ task[c].pc = "idle" /\ task'[c].pc # "idle")
          => /\ task'[c].pc = "done"
             /\ task'[c].out = Raised(NotConnected)
             /\ UNCHANGED <<sent, pending_by_request, pending_by_session,
                            store_ready_events>> ]_vars

\* C28: when a wait_for_* call times out only that caller fails: every other
\* caller waiting for the same milestone goes on waiting for it as before.
C28_TimeoutOnlyFailsCaller ==
    [][\A c \in AppTasks :
          Timeout(c) =>
             /\ task'[c].out = Raised(TimedOut)
             /\ \A d \in AppTasks \ {c} : task'[d] = task[d]
             /\ store_ready_events' = store_ready_events ]_vars


C29_IsSetSession(e) == e.cb = "set_session"

\* The set_session calls the strategy recorded.
C29_HookCalls == Len(SelectSeq(strategy.events, C29_IsSetSession))

\* connect() on a connected session changes nothing: no transport, no receive
\* task, no hook call.
C29_ConnectedConnectIsNoOp ==
    [][(ws = "open" /\ Connect) => UNCHANGED vars]_vars

\* The hook was called once when the session is connected, and not before.
C29_HookOncePerConnection ==
    [](C29_HookCalls = IF ws = "open" THEN 1 ELSE 0)

\* C29: connect() is idempotent while connected: it opens no second transport,
\* starts no second receive task and does not call set_session again; the
\* hook is called exactly once per successful connection.
C29_ConnectIdempotent ==
    /\ C29_ConnectedConnectIsNoOp
    /\ C29_HookOncePerConnection

\* The session is connected, the hook was called, and callbacks followed.
C29_Witness ==
    /\ ws = "open"
    /\ Len(strategy.events) > 1
    /\ strategy.events[1].cb = "set_session"

\* C31: with a decision-only strategy, a tick of a warm session whose on_tick
\* returns a non-empty list of OrderSpec makes the session send an order_batch
\* for that session in the same turn of the receive loop, while on_tick is
\* called once for the tick.
C31_IntentsBecomeOrderBatch ==
    [][\A f \in RecordedFrames :
          \/ /\ [type |-> "order_batch", session_id |-> f.data.session_id] \in sent'
             /\ Len(strategy'.events) = Len(strategy.events) + 1
          \/ ~RecvDecision(f)]_vars
\* What a call raises when the transport's send raised.
C32_SendFailed(t) ==
    /\ t.pc = "done"
    /\ t.out.kind = "raised"
    /\ t.out.err.kind = "TransportError"

\* C32: a submit_orders whose send fails raises the transport's exception,
\* leaves the pending-request map as it was before the call, with no entry
\* for its request id, and leaves the connection and the receive loop as
\* they were, so that later calls work.
C32_SubmitSendFailureCleansUp ==
    [][\A c \in AppTasks, r \in Rids :
          \/ /\ C32_SendFailed(task'[c])
             /\ pending_by_request'[r] = None
             /\ pending_by_request' = pending_by_request
             /\ ws' = ws /\ reader' = reader
          \/ ws = "none"
          \/ ~SubmitOrders(c, "s1", r, FALSE)]_vars
C34_Last(seq, n) ==
    LET k == IF n < Len(seq) THEN n ELSE Len(seq)
    IN SubSeq(seq, Len(seq) - k + 1, Len(seq))

\* C34: for every series of a Store, every numeric field and every window
\* N >= 0, as_numpy and as_pandas with window=N return the last min(N, L)
\* values of the field in stored order (none for N = 0), and all L values
\* when no window is given.
C34_WindowedExport ==
    \A s \in Sids : \A y \in DOMAIN stores[s].by_symbol : \A f \in NumericFields :
        LET col == stores[s].by_symbol[y][f] IN
        /\ AsNumpy(stores[s], y, f, << >>).values = col
        /\ AsPandas(stores[s], y, f, << >>).values = col
        /\ \A n \in 0..MaxWindow :
              /\ AsNumpy(stores[s], y, f, <<n>>).values = C34_Last(col, n)
              /\ AsPandas(stores[s], y, f, <<n>>).values = C34_Last(col, n)
\* The _recv_loop tasks of the session object that have not finished.
C35_ReceiveLoops ==
    reader.orphans + (IF reader.pc \in {"recv", "callback"} THEN 1 ELSE 0)

\* C35: at any time at most one receive-loop task exists for the session
\* object, also when two connect() calls overlap.
C35_OneReceiveLoop == C35_ReceiveLoops <= 1
\* The session events, which name their session in data.session_id.
C36_EventTypes ==
    {"history_snapshot", "tick", "execution_report", "account_snapshot", "simulation_end"}

\* Nothing of a session other than S changed, nor did the pending requests
\* and the calls that await them.
C36_OthersUntouched(S) ==
    /\ pending_by_request' = pending_by_request
    /\ \A c \in Callers :
          (task[c].pc = "await_req" \/ task[c].sid \notin {S, None}) => task'[c] = task[c]
    /\ \A s \in Sids \ {S} :
          /\ stores'[s] = stores[s]
          /\ store_ready_events'[s] = store_ready_events[s]
          /\ pending_by_session'[s] = pending_by_session[s]
          /\ tick_queues'[s] = tick_queues[s]
          /\ fill_queues'[s] = fill_queues[s]
          /\ account_queues'[s] = account_queues[s]

\* C36: dispatching a history_snapshot, tick, execution_report,
\* account_snapshot or simulation_end of session S changes nothing of any
\* other session (Store, queues, waiters, readiness) and leaves the
\* pending-request map as it is.
C36_SessionIsolation ==
    [][\A f \in LifeFrames :
          \/ f.type \notin C36_EventTypes
          \/ C36_OthersUntouched(f.data.session_id)
          \/ ~Recv(f, "return")]_vars
\* The call of c awaits a future that is not done and that the
\* pending-request map holds under the call's request id.
C37_Registered(c) ==
    /\ task[c].pc = "await_req"
    /\ task[c].fut.st = "pending"
    /\ pending_by_request[task[c].rid] = c

\* C37: the future an outstanding start_simulation / submit_orders awaits
\* stays registered under its request id until it is resolved: no step, in
\* particular no registration of another request under the same id, takes
\* an unresolved future out of the map.
C37_RegisteredUntilResolved ==
    [][\A c \in AppTasks :
          C37_Registered(c) =>
              \/ task'[c].fut.st # "pending"
              \/ pending_by_request'[task[c].rid] = c]_vars
\* C38: a start_simulation whose send fails, under a request id no outstanding
\* request uses, raises the transport's exception and leaves the
\* pending-request map and the request-metadata map as they were before the
\* call, with no entry for its request id.
C38_StartSendFailureCleansUp ==
    [][\A c \in AppTasks, r \in Rids :
          \/ /\ task'[c].pc = "done"
             /\ task'[c].out.kind = "raised"
             /\ task'[c].out.err.kind = "TransportError"
             /\ pending_by_request' = pending_by_request
             /\ req_meta_by_rid' = req_meta_by_rid
             /\ pending_by_request'[r] = None
             /\ req_meta_by_rid'[r] = None
          \/ ws = "none"
          \/ ~Fresh(r) \/ req_meta_by_rid[r] # None
          \/ ~StartSimulation(c, r, FALSE)]_vars
\* The step dispatched no frame: no Store, readiness event, waiter, pending
\* request or queue changed and no on_* callback was called.
C39_NothingDispatched ==
    /\ stores' = stores
    /\ store_ready_events' = store_ready_events
    /\ pending_by_session' = pending_by_session
    /\ pending_by_request' = pending_by_request
    /\ session_meta' = session_meta
    /\ queueVars' = queueVars
    /\ \/ strategy'.events = strategy.events
       \/ strategy'.events = Append(strategy.events,
                                    [cb |-> "set_session", sid |-> None,
                                     data |-> EmptyData, store |-> NoStore])

\* C39: once close() was called the session object dispatches no inbound
\* frame any more, also after a later connect(): nothing is resolved, stored
\* or queued and no callback is invoked from then on.
C39_NoDispatchAfterClose ==
    [][closed => C39_NothingDispatched]_vars
\* The callbacks that deliver a session event.
C40_EventCallbacks == {"on_tick", "on_fill", "on_account_snapshot", "on_session_end"}

\* Every event callback of a session comes after an on_session_start of that
\* session.
C40_OnlyAfterStart ==
    [](\A i \in CallIdx :
          strategy.events[i].cb \in C40_EventCallbacks
          => \E j \in 1..(i - 1) : /\ strategy.events[j].cb = "on_session_start"
                                   /\ strategy.events[j].sid = strategy.events[i].sid)

\* What dispatching event f does for a session without a Store: the put on
\* the queue, or the result of the end waiter.
C40_Pushed(f) ==
    LET sid == f.data.session_id IN
    CASE f.type = "tick" -> tick_queues' = QueuePut(tick_queues, sid, f.data)
      [] f.type = "execution_report" -> fill_queues' = QueuePut(fill_queues, sid, f.data)
      [] f.type = "account_snapshot" ->
            account_queues' = QueuePut(account_queues, sid, f.data)
      [] f.type = "simulation_end" ->
            /\ pending_by_session'[sid].present
            /\ pending_by_session'[sid].ended = ResultFut(f)

\* An event of a session that has no Store yet is pushed, and neither applied
\* to a Store nor handed to the strategy.
C40_ColdEventOnlyPushed ==
    [][\A f \in GateFrames :
          \/ f.type = "history_snapshot"
          \/ stores[f.data.session_id].present
          \/ /\ C40_Pushed(f)
             /\ stores' = stores
             /\ strategy' = strategy
          \/ ~Recv(f, "return")]_vars

\* Nothing is delivered late: a call is recorded only in the step that
\* dispatches its envelope (or by connect), and the Store a snapshot creates
\* holds the candles of the snapshot only.
C40_NeverReplayed ==
    [][\/ strategy' = strategy
       \/ ws = "none"
       \/ \E f \in GateFrames :
             LET sid == f.data.session_id IN
             /\ Recv(f, "return")
             /\ strategy'.events =
                   Append(strategy.events,
                          [cb |-> CallbackOf(f.type), sid |-> sid, data |-> f.data,
                           store |-> stores'[sid]])
             /\ f.type = "history_snapshot"
                   => stores'[sid] = FromHistory(f.data.candles).store]_vars

\* C40: on_tick, on_fill, on_account_snapshot and on_session_end are invoked
\* for a session only after a history_snapshot of that session was ingested
\* (after its on_session_start); an event that arrives before the snapshot is
\* pushed to its queue or end waiter, is not applied to the Store and is never
\* delivered to the strategy, also not when the snapshot arrives later.
C40_CallbacksGatedOnWarmup ==
    /\ C40_OnlyAfterStart
    /\ C40_ColdEventOnlyPushed
    /\ C40_NeverReplayed

\* A tick of "s1" arrived before the snapshot and is queued; then the snapshot
\* was ingested and a fill delivered, and no on_tick was ever called.
C40_Witness ==
    /\ tick_queues["s1"].items # << >>
    /\ \A i \in CallIdx : strategy.events[i].cb # "on_tick"
    /\ \E i, j \in CallIdx :
          /\ i < j
          /\ strategy.events[i].cb = "on_session_start" /\ strategy.events[i].sid = "s1"
          /\ strategy.events[j].cb = "on_fill" /\ strategy.events[j].sid = "s1"
          /\ Len(SeriesOf(strategy.events[j].store.by_symbol, "AAPL").date) = 1
====
